---- MODULE Spec2Model ----
(***************************************************************************)
(* The LaTeX formatting core of texlab (crates/formatter): the prose IR,   *)
(* the recursive format functions of every node kind and the greedy line   *)
(* packer TexParent::format, driven by Formatter::format.                  *)
(*                                                                         *)
(* A Rust String is a sequence of one-character strings, a Vec<String> a   *)
(* sequence of such sequences.  All texts are ASCII, so len() in bytes is  *)
(* Len.                                                                    *)
(***************************************************************************)
EXTENDS Integers, Sequences, FiniteSets, TLC

VARIABLES
    context,          \* Formatter.context: tabstop, indent_level, math_mode, line_length
    doc,              \* Formatter.doc
    overflow_checks,  \* build profile: TRUE = usize underflow panics, FALSE = it wraps
    pending,          \* the classified roots (TexElement::from(root)) of the calls to come
    pc,               \* "idle", "loop" (inside TexParent::format of the root), "done", "aborted"
    i,                \* TexParent::format: index of the next child (1-based)
    line,             \* TexParent::format: the current open line
    output,           \* TexParent::format: the completed lines
    l,                \* TexParent::format: the recorded boundary
    result,           \* the String returned by the last Formatter::format call
    lock,             \* BuildEngine.lock: 0 when free, else the thread that holds the guard
    lsp_sender,       \* the notifications sent on the channel to the client, in order
    build             \* per thread, the BuildEngine::build call it makes

vars == <<context, doc, overflow_checks, pending, pc, i, line, output, l, result,
          lock, lsp_sender, build>>

\* the state of the build engine
engine_vars == <<lock, lsp_sender, build>>

\* the state of the formatter
formatter_vars == <<context, doc, overflow_checks, pending, pc, i, line, output, l, result>>

\* the threads of the server that call BuildEngine::build
MaxThreads == 2

Threads == 1..MaxThreads

\* a build request whose document has a URI of the given scheme, not yet started
BuildRequest(scheme) ==
    [pc |-> "start", scheme |-> scheme, process |-> "none", logged |-> 0, returned |-> "none"]

\* BuildEngine::default() and no call of build
EngineIdle ==
    /\ lock = 0
    /\ lsp_sender = <<>>
    /\ build = [t \in Threads |-> BuildRequest("file")]

----------------------------------------------------------------------------
(* Strings *)

Chars(s) == [n \in 1..Len(s) |-> SubSeq(s, n, n)]

\* char::is_whitespace restricted to the characters the model uses
Whitespace == {" ", "\n", "\t"}

RECURSIVE TrimStart(_)
TrimStart(s) ==
    IF s = <<>> THEN s
    ELSE IF Head(s) \in Whitespace THEN TrimStart(Tail(s)) ELSE s

RECURSIVE TrimEnd(_)
TrimEnd(s) ==
    IF s = <<>> THEN s
    ELSE IF s[Len(s)] \in Whitespace THEN TrimEnd(SubSeq(s, 1, Len(s) - 1)) ELSE s

Trim(s) == TrimEnd(TrimStart(s))

\* str.trim().is_empty()
Blank(s) == \A n \in 1..Len(s) : s[n] \in Whitespace

EndsWith(s, suffix) ==
    /\ Len(s) >= Len(suffix)
    /\ SubSeq(s, Len(s) - Len(suffix) + 1, Len(s)) = suffix

\* s.chars().nth(0) is Some(c) with c in set
FirstCharIn(s, set) == s # <<>> /\ s[1] \in set

\* [String]::join(sep)
RECURSIVE Join(_, _)
Join(lines, sep) ==
    IF lines = <<>> THEN <<>>
    ELSE IF Len(lines) = 1 THEN lines[1]
    ELSE lines[1] \o sep \o Join(Tail(lines), sep)

\* str::split(ch): the pieces between the separators, empty pieces kept
RECURSIVE SplitFrom(_, _, _, _)
SplitFrom(s, ch, n, piece) ==
    IF n > Len(s) THEN <<piece>>
    ELSE IF s[n] = ch THEN <<piece>> \o SplitFrom(s, ch, n + 1, <<>>)
    ELSE SplitFrom(s, ch, n + 1, Append(piece, s[n]))

Split(s, ch) == SplitFrom(s, ch, 1, <<>>)

\* lines.iter().map(|line| line.len()).sum()
RECURSIVE SumLen(_)
SumLen(lines) == IF lines = <<>> THEN 0 ELSE Len(Head(lines)) + SumLen(Tail(lines))

\* iter().map(|line| line.trim()) and iter().map(|line| line.trim_end())
TrimAll(lines) == [n \in 1..Len(lines) |-> Trim(lines[n])]
TrimEndAll(lines) == [n \in 1..Len(lines) |-> TrimEnd(lines[n])]

\* concatenation of a sequence of line sequences
RECURSIVE Flatten(_)
Flatten(ls) == IF ls = <<>> THEN <<>> ELSE Head(ls) \o Flatten(Tail(ls))

RECURSIVE Spaces(_)
Spaces(n) == IF n <= 0 THEN <<>> ELSE <<" ">> \o Spaces(n - 1)

indent_str(indent_level, tabstop) == Spaces(indent_level * tabstop)

\* the number of leading spaces of a line
RECURSIVE LeadingSpaces(_)
LeadingSpaces(s) ==
    IF s = <<>> \/ Head(s) # " " THEN 0 ELSE 1 + LeadingSpaces(Tail(s))

\* the number of occurrences of ch in the lines
RECURSIVE CountChar(_, _)
CountChar(s, ch) ==
    IF s = <<>> THEN 0
    ELSE (IF Head(s) = ch THEN 1 ELSE 0) + CountChar(Tail(s), ch)

CountInLines(lines, ch) == CountChar(Flatten(lines), ch)

----------------------------------------------------------------------------
(* Aborts and usize arithmetic *)

\* A format call that panics (unwrap on None, index out of range, usize
\* underflow with overflow checks) returns PanicLines; the marker is not a
\* character, so it survives every trim, join and split until the caller
\* that started the call sees it.
PanicChar == "PANIC"
PanicLines == << <<PanicChar>> >>

PoisonedLine(s) == \E n \in 1..Len(s) : s[n] = PanicChar
Poisoned(lines) == \E n \in 1..Len(lines) : PoisonedLine(lines[n])

\* usize is 64 bits wide; the model's integers are 32 bits wide, so the
\* wrap-around is taken modulo UsizeRange, larger than every length here.
UsizeRange == 1048576

\* a - b on usize: the difference; with overflow checks an underflow panics
\* (the callee sees the budget -1 and returns PanicLines), without them it wraps
USub(a, b) ==
    IF a < 0 THEN -1
    ELSE IF a >= b THEN a - b
    ELSE IF overflow_checks THEN -1
    ELSE UsizeRange + a - b

----------------------------------------------------------------------------
(* The prose IR: enum TexElement *)

Parent(children) == [kind |-> "Parent", children |-> children]
Command(name, args) == [kind |-> "Command", name |-> name, args |-> args]
Environment(children) == [kind |-> "Environment", children |-> children]
Text(text) == [kind |-> "Text", text |-> text]
KeyValPair(key, value) == [kind |-> "KeyValPair", key |-> key, value |-> value]
CurlyGroup(children) == [kind |-> "CurlyGroup", children |-> children]
MixedGroup(open, children, close) ==
    [kind |-> "MixedGroup", children |-> children, open_delim |-> open, close_delim |-> close]
CurlyGroupWordList(children) == [kind |-> "CurlyGroupWordList", children |-> children]
BrackGroup(children) == [kind |-> "BrackGroup", children |-> children]
EnumItem(children) == [kind |-> "EnumItem", children |-> children]
Section(heading, name, children) ==
    [kind |-> "Section", heading |-> heading, name |-> name, children |-> children]
BlankLine == [kind |-> "BlankLine"]
Comment(text) == [kind |-> "Comment", text |-> text]
BeginEnvironment(name, args, tail) ==
    [kind |-> "BeginEnvironment", name |-> name, args |-> args, tail |-> tail]
EndEnvironment(name, tail) == [kind |-> "EndEnvironment", name |-> name, tail |-> tail]

Formula(inline, children) == [kind |-> "Formula", inline |-> inline, children |-> children]

\* The math IR: enum MathElement.  A MathEnvironment is also the Math variant
\* of TexEnvironmentParent.
MathParent(children) == [kind |-> "MathParent", children |-> children]
MathCommand(name, args) == [kind |-> "MathCommand", name |-> name, args |-> args]
MathEnvironment(name, args, children) ==
    [kind |-> "MathEnvironment", name |-> name, args |-> args, children |-> children]
MathText(text) == [kind |-> "MathText", text |-> text]
MathCurlyGroup(children) == [kind |-> "MathCurlyGroup", children |-> children]
MathMixedGroup(open, children, close) ==
    [kind |-> "MathMixedGroup", open_delim |-> open, children |-> children,
     close_delim |-> close]
MathBrackGroup(children) == [kind |-> "MathBrackGroup", children |-> children]

\* self.children.get(i + 1) is None
NoElement == [kind |-> "None"]

----------------------------------------------------------------------------
(* Format functions of the node kinds *)

RECURSIVE TexElementFormat(_, _, _, _)
RECURSIVE TexParentStep(_, _, _, _, _, _)
RECURSIVE TexParentLoop(_, _, _, _, _, _)
RECURSIVE TexCommandArgs(_, _, _, _, _, _)
RECURSIVE FormatAll(_, _, _, _)
RECURSIVE MathElementFormat(_, _, _, _)
RECURSIVE MathParentLoop(_, _, _, _, _, _)
RECURSIVE MathFormatAll(_, _, _, _)
RECURSIVE MathJoinAll(_, _, _, _)
RECURSIVE TexMixedGroupBody(_, _, _, _)
RECURSIVE TexBeginEnvironmentArgs(_, _, _, _, _)

\* for child in children { output.extend(child.format(..)) }
FormatAll(children, indent_level, tabstop, line_length) ==
    IF children = <<>> THEN <<>>
    ELSE TexElementFormat(Head(children), indent_level, tabstop, line_length)
            \o FormatAll(Tail(children), indent_level, tabstop, line_length)

\* the local variables of TexParent::format before the first child
TexParentInit(indent_level, tabstop) ==
    [line |-> indent_str(indent_level, tabstop), output |-> <<>>,
     l |-> Len(indent_str(indent_level, tabstop))]

\* the locals after a panic inside the loop body
AbortState == [line |-> <<PanicChar>>, output |-> PanicLines, l |-> 0]

StatePoisoned(st) == PoisonedLine(st.line) \/ Poisoned(st.output)

\* the commands that always start a new line
NewlineCommands ==
    { Chars("\\newline"), Chars("\\newpage"), Chars("\\usepackage"),
      Chars("\\documentclass"), Chars("\\setlength"), Chars("\\pagestyle"),
      Chars("\\newcommand"), Chars("\\renewcommand"), Chars("\\author"),
      Chars("\\title"), Chars("\\maketitle"), Chars("\\date"),
      Chars("\\institute"), Chars("\\usetheme"), Chars("\\usecolortheme") }

LineBreakCommand == Chars("\\\\")

\* the separator after a command placed on the line, chosen from the next sibling
CommandSeparator(ln, next) ==
    LET afterText ==
            IF /\ next.kind = "Text"
               /\ ~Blank(next.text)
               /\ ~FirstCharIn(next.text, {"}", ")", "]", ".", ",", ";", "~"})
            THEN IF ~EndsWith(ln, <<"}">>) THEN Append(ln, "~") ELSE Append(ln, " ")
            ELSE ln
    IN  IF next.kind = "Formula" THEN Append(afterText, " ") ELSE afterText

\* TexParent::format, the Command branch; st is the state after the loop head
TexParentCommand(cmd, next, st, indent_level, tabstop, line_length) ==
    LET indent == indent_str(indent_level, tabstop)
        marked == IF EndsWith(TrimEnd(st.line), <<"%">>)
                  THEN TrimEnd(st.line) ELSE Append(TrimEnd(st.line), "%")
        \* the locals after the pre-measure test against the flat width cmdln
        guarded(cmdln) ==
            IF Len(st.line) + cmdln >= line_length /\ ~Blank(st.line)
            THEN [st EXCEPT !.output = Append(st.output, TrimEnd(marked)), !.line = indent]
            ELSE st
        \* a command that always starts a new line
        newline(s1, fmt) ==
            IF ~Blank(s1.line)
            THEN [s1 EXCEPT !.output = Append(s1.output, TrimEnd(s1.line))
                                          \o TrimEndAll(fmt),
                            !.line = <<>>]
            ELSE [s1 EXCEPT !.output = s1.output \o TrimEndAll(fmt)]
        \* a command placed on the current line
        placed(s1, fmt) ==
            IF fmt = <<>> THEN AbortState
            ELSE IF Len(fmt) = 1 /\ Len(s1.line) + Len(fmt[1]) <= line_length
            THEN [s1 EXCEPT !.line = CommandSeparator(s1.line \o Trim(fmt[1]), next)]
            ELSE IF Len(fmt) = 1
            THEN [s1 EXCEPT !.line = s1.line \o Trim(fmt[1])]
            ELSE [s1 EXCEPT
                    !.output = Append(s1.output, s1.line \o Trim(fmt[1])) \o
                               [n \in 1..(Len(fmt) - 1) |-> indent \o fmt[n + 1]],
                    !.line = <<>>]
        branch(s1) ==
            IF cmd.name \in NewlineCommands
            THEN newline(s1, TexElementFormat(cmd, indent_level, tabstop, line_length))
            ELSE IF cmd.name = LineBreakCommand
            THEN [s1 EXCEPT !.output = Append(s1.output, Trim(s1.line \o LineBreakCommand)),
                            !.line = <<>>, !.l = 0]
            ELSE placed(s1, TexElementFormat(cmd, indent_level, tabstop,
                                             USub(line_length, Len(s1.line))))
        measured(flat) ==
            IF Poisoned(flat) THEN AbortState ELSE branch(guarded(Len(Join(flat, <<>>))))
    IN  measured(TexElementFormat(cmd, 0, 0, 0))

\* the word loop of the Text branch: for word in words { .. }
RECURSIVE TexParentWords(_, _, _, _)
TexParentWords(words, st, indent, line_length) ==
    IF words = <<>> THEN st
    ELSE LET word == Head(words)
             s1 == IF Len(st.line) + Len(TrimEnd(word)) > line_length
                   THEN [line |-> indent, output |-> Append(st.output, TrimEnd(st.line)),
                         l |-> Len(indent)]
                   ELSE st
         IN  TexParentWords(Tail(words), [s1 EXCEPT !.line = s1.line \o word \o <<" ">>],
                            indent, line_length)

\* TexParent::format, the Text branch (the text is not blank)
TexParentText(text, next, st, indent_level, tabstop, line_length) ==
    LET indent == indent_str(indent_level, tabstop)
    IN  IF line_length = 0 THEN [st EXCEPT !.line = st.line \o text]
        ELSE IF Len(Trim(text)) + Len(st.line) < line_length THEN
            LET ln == st.line \o Trim(text) \o <<" ">>
            IN  [st EXCEPT !.line =
                    IF next.kind = "Command"
                    THEN IF EndsWith(ln, <<"~", " ">>) THEN Trim(ln)
                         ELSE IF next.args = <<>> THEN SubSeq(ln, 1, Len(ln) - 1)
                         ELSE ln
                    ELSE ln]
        ELSE TexParentWords(Split(Trim(text), " "), st, indent, line_length)

\* TexParentBlock with a list item that replaces the pending line instead of
\* following it
TexParentBlockReplacing(child, st, indent_level, tabstop, line_length) ==
    LET indent == indent_str(indent_level, tabstop)
        \* the line is pushed when it is not blank, and restarts as restart
        pushed(ln, restart) ==
            IF ~Blank(st.line)
            THEN [line |-> restart, output |-> Append(st.output, ln), l |-> Len(restart)]
            ELSE st
        cleared(s1) == [line |-> <<>>, l |-> 0, output |-> s1.output]
        block(fmt) ==
            CASE child.kind \in {"Environment", "MathEnvironment"} ->
                    [pushed(st.line, indent) EXCEPT !.output = @ \o TrimEndAll(fmt)]
              [] child.kind = "BeginEnvironment" ->
                    [pushed(st.line, <<>>) EXCEPT !.output = @ \o fmt]
              [] child.kind = "EndEnvironment" ->
                    [pushed(st.line, indent) EXCEPT !.output = @ \o fmt]
              [] child.kind = "Section" ->
                    IF ~Blank(st.line)
                    THEN [st EXCEPT !.output = Append(st.output, TrimEnd(st.line)) \o fmt,
                                    !.line = <<>>]
                    ELSE [st EXCEPT !.output = st.output \o fmt]
              [] child.kind = "EnumItem" ->
                    [cleared(st) EXCEPT !.output = @ \o fmt]
              [] child.kind = "BlankLine" ->
                    [cleared(pushed(Trim(st.line), <<>>)) EXCEPT !.output = Append(@, <<>>)]
    IN  block(TexElementFormat(child, indent_level, tabstop,
                               IF child.kind = "EnumItem" THEN USub(line_length, 0)
                               ELSE line_length))

\* the branches that push a pending line and then append the child's own lines
TexParentBlock(child, st, indent_level, tabstop, line_length) ==
    LET indent == indent_str(indent_level, tabstop)
        \* the line is pushed when it is not blank, and restarts as restart
        pushed(ln, restart) ==
            IF ~Blank(st.line)
            THEN [line |-> restart, output |-> Append(st.output, ln), l |-> Len(restart)]
            ELSE st
        cleared(s1) == [line |-> <<>>, l |-> 0, output |-> s1.output]
        block(fmt) ==
            CASE child.kind \in {"Environment", "MathEnvironment"} ->
                    [pushed(st.line, indent) EXCEPT !.output = @ \o TrimEndAll(fmt)]
              [] child.kind = "BeginEnvironment" ->
                    [pushed(st.line, <<>>) EXCEPT !.output = @ \o fmt]
              [] child.kind = "EndEnvironment" ->
                    [pushed(st.line, indent) EXCEPT !.output = @ \o fmt]
              [] child.kind = "Section" ->
                    IF ~Blank(st.line)
                    THEN [st EXCEPT !.output = Append(st.output, TrimEnd(st.line)) \o fmt,
                                    !.line = <<>>]
                    ELSE [st EXCEPT !.output = st.output \o fmt]
              [] child.kind = "EnumItem" ->
                    [cleared(pushed(Trim(st.line), <<>>)) EXCEPT !.output = @ \o fmt]
              [] child.kind = "BlankLine" ->
                    [cleared(pushed(Trim(st.line), <<>>)) EXCEPT !.output = Append(@, <<>>)]
    IN  block(TexElementFormat(child, indent_level, tabstop,
                               IF child.kind = "EnumItem" THEN USub(line_length, 0)
                               ELSE line_length))

\* the branches that append a group to the current line
TexParentGroup(child, next, st, indent_level, tabstop, line_length) ==
    LET indent == indent_str(indent_level, tabstop)
        group(fmt) ==
            CASE child.kind = "Parent" ->
                    IF fmt = <<>> THEN AbortState
                    ELSE IF Len(fmt) > 1
                    THEN [st EXCEPT
                            !.line = indent \o fmt[Len(fmt)],
                            !.output = Append(st.output, st.line \o indent \o fmt[1]) \o
                                       [n \in 1..(Len(fmt) - 2) |-> indent \o fmt[n + 1]]]
                    ELSE [st EXCEPT !.line = indent,
                                    !.output = Append(st.output, st.line \o indent \o fmt[1])]
              [] child.kind = "CurlyGroup" ->
                    IF fmt = <<>> THEN AbortState
                    ELSE [st EXCEPT !.line = <<>>,
                                    !.output = Append(st.output, st.line \o fmt[1])
                                                  \o Tail(fmt)]
              [] child.kind \in {"BrackGroup", "CurlyGroupWordList"} ->
                    [st EXCEPT !.line = st.line \o Join(fmt, <<>>)]
              [] child.kind = "MixedGroup" ->
                    [st EXCEPT !.line =
                        IF next.kind = "Text"
                           /\ ~FirstCharIn(next.text, {".", ",", "^", "_", "-"})
                        THEN Append(st.line \o TrimEnd(Join(fmt, <<>>)), " ")
                        ELSE st.line \o TrimEnd(Join(fmt, <<>>))]
    IN  group(TexElementFormat(child, indent_level, tabstop,
                               IF child.kind = "CurlyGroup"
                               THEN USub(line_length, Len(st.line)) ELSE line_length))

\* the separator after an inline formula placed on the line
FormulaSeparator(ln, next) ==
    LET afterText == IF next.kind = "Text" /\ ~FirstCharIn(next.text, {".", ",", "?", ";", "-"})
                     THEN Append(ln, " ") ELSE ln
    IN  IF next.kind = "Formula" THEN Append(afterText, " ") ELSE afterText

\* TexParent::format, the Formula branch
TexParentFormula(formula, next, st, indent_level, tabstop, line_length) ==
    LET indent == indent_str(indent_level, tabstop)
        placed(fmt) ==
            IF Poisoned(fmt) THEN AbortState
            ELSE IF formula.inline THEN
                IF Len(Join(fmt, <<>>)) + Len(st.line) > line_length
                THEN IF Len(fmt) = 1
                     THEN [st EXCEPT !.output = Append(st.output, st.line),
                                     !.line = FormulaSeparator(Trim(Join(fmt, <<>>)), next)]
                     ELSE [st EXCEPT !.output = Append(st.output, st.line) \o fmt,
                                     !.line = <<>>]
                ELSE [st EXCEPT !.line = FormulaSeparator(st.line \o Trim(Join(fmt, <<>>)), next)]
            ELSE IF ~Blank(st.line)
            THEN [line |-> indent, output |-> Append(st.output, TrimEnd(st.line)) \o fmt,
                  l |-> Len(indent)]
            ELSE [st EXCEPT !.output = st.output \o fmt]
    IN  placed(TexElementFormat(formula, indent_level, tabstop, line_length))

\* TexParent::format: the body of the loop for child i
TexParentStep(children, n, st, indent_level, tabstop, line_length) ==
    LET child == children[n]
        next == IF n < Len(children) THEN children[n + 1] ELSE NoElement
        s0 == IF Len(st.line) > line_length
              THEN [line |-> <<>>, output |-> Append(st.output, st.line), l |-> 0]
              ELSE [st EXCEPT !.l = Len(st.line)]
        checked(s1) == IF StatePoisoned(s1) THEN AbortState ELSE s1
    IN  checked(
          CASE child.kind = "Command" ->
                 TexParentCommand(child, next, s0, indent_level, tabstop, line_length)
            [] child.kind = "Text" /\ ~Blank(child.text) ->
                 TexParentText(child.text, next, s0, indent_level, tabstop, line_length)
            [] child.kind = "Formula" ->
                 TexParentFormula(child, next, s0, indent_level, tabstop, line_length)
            [] child.kind \in {"Environment", "MathEnvironment", "BeginEnvironment",
                               "EndEnvironment", "Section", "EnumItem", "BlankLine"} ->
                 TexParentBlock(child, s0, indent_level, tabstop, line_length)
            [] child.kind \in {"Parent", "CurlyGroup", "BrackGroup",
                               "CurlyGroupWordList", "MixedGroup"} ->
                 TexParentGroup(child, next, s0, indent_level, tabstop, line_length)
            [] OTHER -> s0)

TexParentLoop(children, n, st, indent_level, tabstop, line_length) ==
    IF n > Len(children) \/ StatePoisoned(st) THEN st
    ELSE TexParentLoop(children, n + 1,
                       TexParentStep(children, n, st, indent_level, tabstop, line_length),
                       indent_level, tabstop, line_length)

\* TexParent::format after the loop: the end-of-children flush
TexParentFlush(st, tabstop, line_length) ==
    IF StatePoisoned(st) THEN PanicLines
    ELSE IF Blank(st.line) THEN st.output
    ELSE IF Len(st.line) < line_length THEN Append(st.output, TrimEnd(st.line))
    ELSE IF st.l > Len(st.line) THEN PanicLines
    ELSE st.output \o << SubSeq(st.line, 1, st.l),
                         indent_str(0, tabstop) \o SubSeq(st.line, st.l + 1, Len(st.line)) >>

TexParentFormat(p, indent_level, tabstop, line_length) ==
    TexParentFlush(
        TexParentLoop(p.children, 1, TexParentInit(indent_level, tabstop),
                      indent_level, tabstop, line_length),
        tabstop, line_length)

\* TexCommand::format: the line_length an argument is formatted with
TexCommandBudget(cmd, line_length) ==
    IF line_length = 0 THEN 0 ELSE USub(line_length, Len(cmd.name))

\* TexCommand::format: the loop over the arguments; st holds output and fmt
TexCommandArgs(cmd, args, st, indent_level, tabstop, line_length) ==
    LET \* the argument rendered as ln is appended to st
        appended(ln) ==
            LET s1 == IF Len(ln[1]) + Len(st.fmt) + Len(cmd.name) > line_length
                      THEN [output |-> Append(st.output, TrimEnd(st.fmt)), fmt |-> <<>>]
                      ELSE st
                s2 == IF Blank(ln[1])
                      THEN [output |-> s1.output \o <<s1.fmt, <<>> >>, fmt |-> <<>>]
                      ELSE [s1 EXCEPT !.fmt = s1.fmt \o TrimEnd(ln[1])]
                last == TrimEnd(ln[Len(ln)])
            IN  IF Len(ln) > 1
                THEN [output |->
                          (IF ~Blank(s2.fmt) THEN Append(s2.output, s2.fmt) ELSE s2.output)
                          \o SubSeq(ln, 2, Len(ln) - 1)
                          \o (IF Blank(last) THEN << <<>> >> ELSE <<>>),
                      fmt |-> last]
                ELSE s2
        taken(ln) ==
            IF line_length = 0 THEN [st EXCEPT !.fmt = st.fmt \o TrimEnd(Join(ln, <<>>))]
            ELSE IF ln = <<>> \/ Poisoned(ln) THEN [output |-> PanicLines, fmt |-> <<>>]
            ELSE appended(ln)
        rest(s3) ==
            IF Poisoned(s3.output) THEN s3
            ELSE TexCommandArgs(cmd, Tail(args), s3, indent_level, tabstop, line_length)
    IN  IF args = <<>> THEN st
        ELSE rest(taken(TexElementFormat(Head(args), indent_level, tabstop,
                                         TexCommandBudget(cmd, line_length))))

TexCommandFormat(cmd, indent_level, tabstop, line_length) ==
    LET returned(st) == IF st.fmt # <<>> THEN Append(st.output, st.fmt) ELSE st.output
    IN  returned(TexCommandArgs(cmd, cmd.args, [output |-> <<>>, fmt |-> cmd.name],
                                indent_level, tabstop, line_length))

\* a curly group that expands a body as long as the width
TexCurlyGroupFormatStrict(group, indent_level, tabstop, line_length) ==
    LET body == Parent(group.children)
        indent == indent_str(indent_level + 1, tabstop)
        expanded(deeper) ==
            << <<"{">> >> \o [n \in 1..Len(deeper) |-> indent \o deeper[n]] \o << <<"}">> >>
        chosen(bodytext) ==
            IF Poisoned(bodytext) THEN PanicLines
            ELSE IF line_length = 0 \/ SumLen(bodytext) < line_length
            THEN << <<"{">> \o Trim(Join(bodytext, <<>>)) \o <<"}">> >>
            ELSE expanded(TexParentFormat(body, indent_level + 1, tabstop, line_length))
    IN  chosen(TexParentFormat(body, indent_level, tabstop, line_length))

TexCurlyGroupFormat(group, indent_level, tabstop, line_length) ==
    LET body == Parent(group.children)
        indent == indent_str(indent_level + 1, tabstop)
        expanded(deeper) ==
            << <<"{">> >> \o [n \in 1..Len(deeper) |-> indent \o deeper[n]] \o << <<"}">> >>
        chosen(bodytext) ==
            IF Poisoned(bodytext) THEN PanicLines
            ELSE IF line_length = 0 \/ SumLen(bodytext) <= line_length
            THEN << <<"{">> \o Trim(Join(bodytext, <<>>)) \o <<"}">> >>
            ELSE expanded(TexParentFormat(body, indent_level + 1, tabstop, line_length))
    IN  chosen(TexParentFormat(body, indent_level, tabstop, line_length))

\* a bracket group that leaves the lines of its children as they are
TexBrackGroupFormatLines(group, indent_level, tabstop, line_length) ==
    << <<"[">> >> \o FormatAll(group.children, indent_level, tabstop, line_length)
    \o << <<"]">> >>

TexBrackGroupFormat(group, indent_level, tabstop, line_length) ==
    << <<"[">> \o Join(FormatAll(group.children, indent_level, tabstop, line_length),
                       <<",", " ">>) \o <<"]">> >>

\* TexMixedGroup::format: the loop over the children
TexMixedGroupBody(children, indent_level, tabstop, line_length) ==
    IF children = <<>> THEN <<>>
    ELSE Trim(Join(Split(Join(TexElementFormat(Head(children), indent_level, tabstop,
                                               line_length), <<>>), ","),
                   <<",", " ">>))
         \o TexMixedGroupBody(Tail(children), indent_level, tabstop, line_length)

TexMixedGroupFormat(group, indent_level, tabstop, line_length) ==
    << group.open_delim
       \o TexMixedGroupBody(group.children, indent_level, tabstop, line_length)
       \o group.close_delim >>

TexCurlyGroupWordListFormat(group, indent_level, tabstop, line_length) ==
    << <<"{">> \o Trim(Join(FormatAll(group.children, indent_level, tabstop, line_length),
                            <<",", " ">>)) \o <<"}">> >>

\* value is an Option<String>: <<>> is None, <<v>> is Some(v)
TexKeyValFormat(kvp) ==
    IF kvp.value # <<>> THEN << kvp.key \o <<"=">> \o kvp.value[1] >> ELSE << kvp.key >>

\* TexBeginEnvironment::format: the header line, one first line per argument
TexBeginEnvironmentArgs(args, ln, indent_level, tabstop, line_length) ==
    LET first(fmt) ==
            IF fmt = <<>> THEN <<PanicChar>>
            ELSE TexBeginEnvironmentArgs(Tail(args), ln \o fmt[1],
                                         indent_level, tabstop, line_length)
    IN  IF args = <<>> THEN ln
        ELSE first(TexElementFormat(Head(args), indent_level, tabstop, line_length))

TexBeginEnvironmentFormat(begin, indent_level, tabstop, line_length) ==
    LET indent == IF indent_level > 0 THEN indent_level - 1 ELSE 0
        header(ln) == IF ~Blank(ln) THEN <<ln>> ELSE <<>>
    IN  header(TexBeginEnvironmentArgs(begin.args,
                                       indent_str(indent, tabstop) \o Chars("\\begin"),
                                       indent_level, tabstop, line_length))
        \o FormatAll(begin.tail, indent_level, tabstop, line_length)

TexEndEnvironmentFormat(end, indent_level, tabstop, line_length) ==
    LET indent == IF indent_level > 0 THEN indent_level - 1 ELSE 0
        ln == indent_str(indent, tabstop) \o Chars("\\end{") \o end.name \o <<"}">>
    IN  (IF ~Blank(ln) THEN <<ln>> ELSE <<>>)
        \o FormatAll(end.tail, indent, tabstop, line_length)

TexEnvironmentFormat(env, indent_level, tabstop, line_length) ==
    LET subindent ==
            IF /\ env.children # <<>>
               /\ env.children[1].kind = "BeginEnvironment"
               /\ env.children[1].name \in {Chars("document"), Chars("verbatim")}
            THEN 0 ELSE 1
    IN  TexParentFormat(Parent(env.children), indent_level + subindent, tabstop, line_length)

\* the trailing loop of TexEnvironmentParent::format
RECURSIVE BlankLinesAndComments(_)
BlankLinesAndComments(children) ==
    IF children = <<>> THEN <<>>
    ELSE (IF Head(children).kind \in {"BlankLine", "Comment"} THEN <<Head(children)>> ELSE <<>>)
         \o BlankLinesAndComments(Tail(children))

TexEnvironmentParentFormat(env, indent_level, tabstop, line_length) ==
    TexEnvironmentFormat(env, indent_level, tabstop, line_length)
    \o FormatAll(BlankLinesAndComments(env.children), indent_level, tabstop, line_length)

TexEnumItemFormat(item, indent_level, tabstop, line_length) ==
    LET indent == indent_str(indent_level, tabstop)
        deeper == indent_str(indent_level + 1, tabstop)
        itemized(out) ==
            IF out = <<>> \/ Poisoned(out) THEN PanicLines
            ELSE << indent \o Chars("\\item")
                    \o (IF FirstCharIn(out[1], {"["}) THEN <<>> ELSE <<" ">>)
                    \o Trim(out[1]) >>
                 \o [n \in 1..(Len(out) - 1) |-> deeper \o out[n + 1]]
    IN  itemized(TexParentFormat(Parent(item.children), indent_level, tabstop,
                                 USub(line_length, 6)))

----------------------------------------------------------------------------
(* The math subsystem *)

\* for child in children { output.extend(child.format(..)) }
MathFormatAll(children, indent_level, tabstop, line_length) ==
    IF children = <<>> THEN <<>>
    ELSE MathElementFormat(Head(children), indent_level, tabstop, line_length)
            \o MathFormatAll(Tail(children), indent_level, tabstop, line_length)

\* for child in children { output.push_str(child.format(..).join("").trim()) }
MathJoinAll(children, indent_level, tabstop, line_length) ==
    IF children = <<>> THEN <<>>
    ELSE Trim(Join(MathElementFormat(Head(children), indent_level, tabstop, line_length), <<>>))
            \o MathJoinAll(Tail(children), indent_level, tabstop, line_length)

MathAbort == [line |-> <<PanicChar>>, output |-> PanicLines]

\* the space after a group: not before . , ^ _ - and always before a command
MathGroupSeparator(ln, next, beforeCommand) ==
    LET afterText ==
            IF next.kind = "MathText" /\ ~FirstCharIn(next.text, {".", ",", "^", "_", "-"})
            THEN Append(ln, " ") ELSE ln
    IN  IF beforeCommand /\ next.kind = "MathCommand" THEN Append(afterText, " ")
        ELSE afterText

\* MathParent::format, the Command branch
MathParentCommand(cmd, next, st, indent_level, tabstop, line_length) ==
    LET flushed == IF ~Blank(st.line)
                   THEN [line |-> <<>>, output |-> Append(st.output, st.line)]
                   ELSE st
        \* the command does not fit the line: it is rendered again on a line of its own
        moved(again) ==
            IF Len(again) = 1
            THEN [flushed EXCEPT !.line = flushed.line \o TrimEnd(again[1])]
            ELSE [line |-> flushed.line \o again[Len(again)],
                  output |-> flushed.output \o SubSeq(again, 1, Len(again) - 1)]
        afterText(ln) == IF next.kind = "MathText"
                            /\ ~FirstCharIn(next.text, {",", "^", "_", "'", "."})
                         THEN Append(ln, " ") ELSE ln
        spaced(s1) ==
            IF EndsWith(s1.line, Chars("\\\\"))
            THEN [line |-> <<>>, output |-> Append(s1.output, Trim(s1.line))]
            ELSE [s1 EXCEPT !.line = IF next.kind = "MathCommand"
                                     THEN Append(afterText(s1.line), " ")
                                     ELSE afterText(s1.line)]
        fitted(fmt) ==
            IF Len(fmt) + Len(st.line) > line_length
            THEN moved(MathElementFormat(cmd, indent_level, tabstop, line_length))
            ELSE [st EXCEPT !.line = st.line \o fmt]
        placed(raw) ==
            IF Poisoned(raw) THEN MathAbort ELSE spaced(fitted(Trim(Join(raw, <<>>))))
    IN  placed(MathElementFormat(cmd, indent_level, tabstop, USub(line_length, Len(st.line))))

\* MathParent::format, the Text branch (the text is not blank)
MathParentText(text, last, next, st) ==
    LET ln == st.line \o Trim(text)
    IN  [st EXCEPT !.line =
            IF last \/ EndsWith(ln, <<"^">>) THEN ln
            ELSE IF next.kind = "MathMixedGroup" THEN ln
            ELSE IF next.kind = "MathText"
            THEN IF /\ ~FirstCharIn(next.text, {"^"})
                    /\ (~EndsWith(ln, <<"&">>) \/ ~FirstCharIn(next.text, {"="}))
                 THEN Append(ln, " ") ELSE ln
            ELSE Append(ln, " ")]

\* MathParent::format: the body of the loop for child n
MathParentStep(children, n, st, indent_level, tabstop, line_length) ==
    LET child == children[n]
        next == IF n < Len(children) THEN children[n + 1] ELSE NoElement
        flushed == IF ~Blank(st.line)
                   THEN [line |-> <<>>, output |-> Append(st.output, st.line)]
                   ELSE st
        appended(fmt) ==
            CASE child.kind = "MathEnvironment" ->
                     [flushed EXCEPT !.output = flushed.output \o fmt]
              [] child.kind = "MathParent" ->
                     IF ~Blank(Join(fmt, <<>>))
                     THEN [flushed EXCEPT !.output = flushed.output \o fmt]
                     ELSE flushed
              [] child.kind \in {"MathCurlyGroup", "MathMixedGroup"} ->
                     [st EXCEPT !.line =
                        MathGroupSeparator(st.line \o Trim(Join(fmt, <<>>)), next, TRUE)]
              [] child.kind = "MathBrackGroup" ->
                     [st EXCEPT !.line =
                        MathGroupSeparator(st.line \o Trim(Join(fmt, <<>>)), next, FALSE)]
        checked(s1) == IF PoisonedLine(s1.line) \/ Poisoned(s1.output) THEN MathAbort ELSE s1
    IN  checked(
          CASE child.kind = "MathCommand" ->
                 MathParentCommand(child, next, st, indent_level, tabstop, line_length)
            [] child.kind = "MathText" /\ ~Blank(child.text) ->
                 MathParentText(child.text, n = Len(children), next, st)
            [] child.kind \in {"MathEnvironment", "MathParent", "MathCurlyGroup",
                               "MathMixedGroup", "MathBrackGroup"} ->
                 appended(MathElementFormat(child, indent_level, tabstop, line_length))
            [] OTHER -> st)

MathParentLoop(children, n, st, indent_level, tabstop, line_length) ==
    IF n > Len(children) \/ PoisonedLine(st.line) THEN st
    ELSE MathParentLoop(children, n + 1,
                        MathParentStep(children, n, st, indent_level, tabstop, line_length),
                        indent_level, tabstop, line_length)

MathParentFormat(p, indent_level, tabstop, line_length) ==
    LET indented(out) == [n \in 1..Len(out) |-> indent_str(indent_level, tabstop) \o out[n]]
        flushed(st) ==
            indented(IF ~Blank(st.line) THEN Append(st.output, TrimEnd(st.line))
                     ELSE st.output)
    IN  flushed(MathParentLoop(p.children, 1, [line |-> <<>>, output |-> <<>>],
                               indent_level, tabstop, line_length))

MathBrackGroupFormat(group, indent_level, tabstop, line_length) ==
    << <<"[">> \o Join(MathFormatAll(group.children, indent_level, tabstop, line_length),
                       <<",", " ">>) \o <<"]">> >>

MathCurlyGroupFormat(group, indent_level, tabstop, line_length) ==
    LET bodytext == MathParentFormat(MathParent(group.children), indent_level, tabstop,
                                     line_length)
    IN  << <<"{">>, Join(TrimAll(bodytext), <<" ">>), <<"}">> >>

MathMixedGroupFormat(group, indent_level, tabstop, line_length) ==
    << group.open_delim
       \o MathJoinAll(group.children, indent_level, tabstop, line_length)
       \o group.close_delim >>

MathCommandFormat(cmd, indent_level, tabstop, line_length) ==
    LET spaced(text) == << IF cmd.name # Chars("\\\\") THEN Append(text, " ") ELSE text >>
    IN  spaced(cmd.name \o MathJoinAll(cmd.args, indent_level, tabstop, line_length))

\* the widest column n of the split lines
RECURSIVE MaxWidthOf(_, _)
MaxWidthOf(split_lines, n) ==
    IF split_lines = <<>> THEN 0
    ELSE LET cols == Head(split_lines)
             rest == MaxWidthOf(Tail(split_lines), n)
             here == IF n <= Len(cols) THEN Len(cols[n]) ELSE 0
         IN  IF here > rest THEN here ELSE rest

\* an alignment pass that rejoins the trimmed cells without padding them
AlignAtAmpUnpadded(env, indent_level, tabstop, line_length) ==
    LET inner_indent == indent_str(indent_level, tabstop)
        joined(split_lines) ==
            [n \in 1..Len(split_lines) |->
                inner_indent \o Join(split_lines[n], <<" ", "&", " ">>)]
        aligned(lines) ==
            IF \A n \in 1..Len(lines) : CountChar(lines[n], "&") = 0 THEN lines
            ELSE SelectSeq(joined([n \in 1..Len(lines) |->
                                      TrimAll(Split(lines[n], "&"))]),
                           LAMBDA ln : ~Blank(ln))
    IN  aligned(MathParentFormat(MathParent(env.children), indent_level, tabstop,
                                 line_length))

\* MathEnvironment::align_at_amp
AlignAtAmp(env, indent_level, tabstop, line_length) ==
    LET inner_indent == indent_str(indent_level, tabstop)
        padded(split_lines, cols) ==
            [c \in 1..Len(cols) |->
                cols[c] \o Spaces(MaxWidthOf(split_lines, c) - Len(cols[c]))]
        joined(split_lines) ==
            [n \in 1..Len(split_lines) |->
                inner_indent \o Join(padded(split_lines, split_lines[n]), <<" ", "&", " ">>)]
        aligned(lines) ==
            IF \A n \in 1..Len(lines) : CountChar(lines[n], "&") = 0 THEN lines
            ELSE SelectSeq(joined([n \in 1..Len(lines) |->
                                      TrimAll(Split(lines[n], "&"))]),
                           LAMBDA ln : ~Blank(ln))
    IN  aligned(MathParentFormat(MathParent(env.children), indent_level, tabstop,
                                 line_length))

MathEnvironmentFormat(env, indent_level, tabstop, line_length) ==
    LET indent == indent_str(indent_level, tabstop)
        header == indent \o Chars("\\begin{") \o env.name \o <<"}">>
                  \o Join(MathFormatAll(env.args, indent_level, tabstop, line_length), <<>>)
    IN  <<header>>
        \o AlignAtAmp(env, indent_level + 1, tabstop, line_length)
        \o << indent \o Chars("\\end{") \o env.name \o <<"}">> >>

\* MathElement::format; a budget below 0 is the panic of the subtraction that made it
MathElementFormat(e, indent_level, tabstop, line_length) ==
    LET checked(r) == IF Poisoned(r) THEN PanicLines ELSE r
    IN  IF line_length < 0 THEN PanicLines
        ELSE checked(
        CASE e.kind = "MathCommand" -> MathCommandFormat(e, indent_level, tabstop, line_length)
          [] e.kind = "MathEnvironment" ->
                MathEnvironmentFormat(e, indent_level, tabstop, line_length)
          [] e.kind = "MathText" -> << Trim(e.text) >>
          [] e.kind = "MathParent" -> MathParentFormat(e, indent_level, tabstop, line_length)
          [] e.kind = "MathCurlyGroup" ->
                MathCurlyGroupFormat(e, indent_level, tabstop, line_length)
          [] e.kind = "MathBrackGroup" ->
                MathBrackGroupFormat(e, indent_level, tabstop, line_length)
          [] e.kind = "MathMixedGroup" ->
                MathMixedGroupFormat(e, indent_level, tabstop, line_length))

\* a formula that counts 5 characters for the delimiters of the inline form
TexFormulaFormatTight(formula, indent_level, tabstop, line_length) ==
    LET indent == indent_str(indent_level, tabstop)
        body == MathParent(formula.children)
        inline(fmt) ==
            IF Len(Trim(Join(fmt, <<>>))) + 5 <= line_length
            THEN << Trim(Chars("\\( ") \o Trim(Join(fmt, <<>>)) \o Chars(" \\)")) >>
            ELSE << Chars("\\( ") >> \o fmt \o << Chars("\\)") >>
        display(fmt) == << indent \o Chars("\\[") >> \o fmt \o << indent \o Chars("\\]") >>
    IN  IF formula.inline
        THEN inline(MathParentFormat(body, indent_level, tabstop, line_length))
        ELSE display(MathParentFormat(body, indent_level + 1, tabstop, line_length))

TexFormulaFormat(formula, indent_level, tabstop, line_length) ==
    LET indent == indent_str(indent_level, tabstop)
        body == MathParent(formula.children)
        inline(fmt) ==
            IF Len(Trim(Join(fmt, <<>>))) + 6 <= line_length
            THEN << Trim(Chars("\\( ") \o Trim(Join(fmt, <<>>)) \o Chars(" \\)")) >>
            ELSE << Chars("\\( ") >> \o fmt \o << Chars("\\)") >>
        display(fmt) == << indent \o Chars("\\[") >> \o fmt \o << indent \o Chars("\\]") >>
    IN  IF formula.inline
        THEN inline(MathParentFormat(body, indent_level, tabstop, line_length))
        ELSE display(MathParentFormat(body, indent_level + 1, tabstop, line_length))

----------------------------------------------------------------------------
(* Sections and the dispatch of TexElement::format *)

\* a section without the empty line above its heading
TexSectionFormatNoBlank(section, indent_level, tabstop, line_length) ==
    << section.heading \o <<"{">> \o section.name \o <<"}">>, <<>> >>
    \o TexParentFormat(Parent(section.children), indent_level, tabstop, line_length)

TexSectionFormat(section, indent_level, tabstop, line_length) ==
    << <<>>, section.heading \o <<"{">> \o section.name \o <<"}">>, <<>> >>
    \o TexParentFormat(Parent(section.children), indent_level, tabstop, line_length)

\* TexElement::format; a budget below 0 is the panic of the subtraction that made it
TexElementFormat(e, indent_level, tabstop, line_length) ==
    LET checked(r) == IF Poisoned(r) THEN PanicLines ELSE r
    IN  IF line_length < 0 THEN PanicLines
        ELSE checked(
        CASE e.kind = "Command" -> TexCommandFormat(e, indent_level, tabstop, line_length)
          [] e.kind = "Environment" ->
                TexEnvironmentParentFormat(e, indent_level, tabstop, line_length)
          [] e.kind = "Text" -> << Trim(e.text) >>
          [] e.kind = "Parent" -> TexParentFormat(e, indent_level, tabstop, line_length)
          [] e.kind = "KeyValPair" -> TexKeyValFormat(e)
          [] e.kind = "CurlyGroup" ->
                TexCurlyGroupFormat(e, indent_level, tabstop, line_length)
          [] e.kind = "BrackGroup" ->
                TexBrackGroupFormat(e, indent_level, tabstop, line_length)
          [] e.kind = "CurlyGroupWordList" ->
                TexCurlyGroupWordListFormat(e, indent_level, tabstop, line_length)
          [] e.kind = "MixedGroup" ->
                TexMixedGroupFormat(e, indent_level, tabstop, line_length)
          [] e.kind = "EnumItem" -> TexEnumItemFormat(e, indent_level, tabstop, line_length)
          [] e.kind = "MathEnvironment" ->
                MathEnvironmentFormat(e, indent_level, tabstop, line_length)
          [] e.kind = "Formula" -> TexFormulaFormat(e, indent_level, tabstop, line_length)
          [] e.kind = "Section" -> TexSectionFormat(e, indent_level, tabstop, line_length)
          [] e.kind = "BlankLine" -> << <<>> >>
          [] e.kind = "Comment" -> << Trim(e.text) >>
          [] e.kind = "BeginEnvironment" ->
                TexBeginEnvironmentFormat(e, indent_level, tabstop, line_length)
          [] e.kind = "EndEnvironment" ->
                TexEndEnvironmentFormat(e, indent_level, tabstop, line_length))

----------------------------------------------------------------------------
(* The classifier: TexElement::from and MathElement::from *)

\* a syntax tree: SyntaxElement::Node and SyntaxElement::Token
SyntaxNode(kind, children) == [syn |-> "node", kind |-> kind, children |-> children]
SyntaxToken(kind, text) == [syn |-> "token", kind |-> kind, text |-> text]

IsNode(e) == e.syn = "node"

\* to_string(): the text of the tokens below the element, in order
RECURSIVE to_string(_)
RECURSIVE to_string_all(_)
to_string_all(elements) ==
    IF elements = <<>> THEN <<>> ELSE to_string(Head(elements)) \o to_string_all(Tail(elements))

to_string(e) == IF IsNode(e) THEN to_string_all(e.children) ELSE e.text

\* node.children(): the child nodes, without the tokens
NodeChildren(node) == SelectSeq(node.children, IsNode)

\* first_token() as an Option: <<>> is None
RECURSIVE FirstToken(_)
RECURSIVE FirstTokenOf(_)
FirstTokenOf(elements) ==
    IF elements = <<>> THEN <<>>
    ELSE IF FirstToken(Head(elements)) # <<>> THEN FirstToken(Head(elements))
    ELSE FirstTokenOf(Tail(elements))

FirstToken(e) == IF IsNode(e) THEN FirstTokenOf(e.children) ELSE <<e>>

\* descendants(): the node and the nodes below it, in preorder
RECURSIVE Descendants(_)
RECURSIVE DescendantsOf(_)
DescendantsOf(nodes) ==
    IF nodes = <<>> THEN <<>> ELSE Descendants(Head(nodes)) \o DescendantsOf(Tail(nodes))

Descendants(node) == <<node>> \o DescendantsOf(NodeChildren(node))

\* descendants_with_tokens()
RECURSIVE DescendantsWithTokens(_)
RECURSIVE DescendantsWithTokensOf(_)
DescendantsWithTokensOf(elements) ==
    IF elements = <<>> THEN <<>>
    ELSE DescendantsWithTokens(Head(elements)) \o DescendantsWithTokensOf(Tail(elements))

DescendantsWithTokens(e) ==
    <<e>> \o (IF IsNode(e) THEN DescendantsWithTokensOf(e.children) ELSE <<>>)

\* str::split(sep) for a separator of any length
RECURSIVE SplitOn(_, _, _, _)
SplitOn(s, sep, n, piece) ==
    IF n > Len(s) THEN <<piece>>
    ELSE IF n + Len(sep) - 1 <= Len(s) /\ SubSeq(s, n, n + Len(sep) - 1) = sep
    THEN <<piece>> \o SplitOn(s, sep, n + Len(sep), <<>>)
    ELSE SplitOn(s, sep, n + 1, Append(piece, s[n]))

ParagraphBreak == <<"\n", "\n">>

\* the element a panicking constructor leaves behind: an unwrap on None
PanicElement == Text(<<PanicChar>>)

\* blanklines_and_comments
RECURSIVE BlankLinesAndCommentsOf(_)
BlankLinesAndCommentsOf(elements) ==
    IF elements = <<>> THEN <<>>
    ELSE LET e == Head(elements)
         IN  (IF ~IsNode(e) /\ e.text = ParagraphBreak THEN <<BlankLine>> ELSE <<>>)
             \o (IF ~IsNode(e) /\ e.kind = "COMMENT" THEN <<Comment(e.text)>> ELSE <<>>)
             \o BlankLinesAndCommentsOf(Tail(elements))

blanklines_and_comments(node) == BlankLinesAndCommentsOf(DescendantsWithTokens(node))

RECURSIVE TexElementFrom(_)
RECURSIVE MathElementFrom(_)

TexFromAll(nodes) == [n \in 1..Len(nodes) |-> TexElementFrom(nodes[n])]
MathFromAll(elements) == [n \in 1..Len(elements) |-> MathElementFrom(elements[n])]

\* TexParent::from: the children
TexParentFrom(node) ==
    LET kept == SelectSeq(node.children,
                          LAMBDA c : \/ IsNode(c)
                                     \/ c.kind \in {"HREF", "COMMENT"}
                                     \/ c.text = ParagraphBreak)
    IN  [n \in 1..Len(kept) |->
            IF IsNode(kept[n]) THEN TexElementFrom(kept[n]) ELSE Text(kept[n].text)]

\* TexBrackGroup::from: the children, a KEY_VALUE_BODY replaced by its children
RECURSIVE TexBrackGroupFrom(_)
TexBrackGroupFrom(nodes) ==
    IF nodes = <<>> THEN <<>>
    ELSE (IF Head(nodes).kind = "KEY_VALUE_BODY"
          THEN TexFromAll(NodeChildren(Head(nodes)))
          ELSE << TexElementFrom(Head(nodes)) >>)
         \o TexBrackGroupFrom(Tail(nodes))

\* the closing delimiter of a mixed group
CloseDelim(open_delim) ==
    CASE open_delim = <<"{">> -> <<"}">>
      [] open_delim = <<"(">> -> <<")">>
      [] open_delim = <<"[">> -> <<"]">>
      [] OTHER -> <<>>

TexMixedGroupFrom(node) ==
    IF FirstToken(node) = <<>> THEN PanicElement
    ELSE MixedGroup(to_string(FirstToken(node)[1]), TexFromAll(NodeChildren(node)),
                    CloseDelim(to_string(FirstToken(node)[1])))

\* the arguments TexCommand::from takes from the child nodes
RECURSIVE TexCommandFromArgs(_)
TexCommandFromArgs(nodes) ==
    IF nodes = <<>> THEN <<>>
    ELSE LET child == Head(nodes)
             names == SelectSeq(child.children, LAMBDA t : t.kind = "COMMAND_NAME")
             arg ==
               CASE child.kind = "CURLY_GROUP_COMMAND" ->
                      << CurlyGroupWordList([n \in 1..Len(names) |->
                                                Text(Trim(to_string(names[n])))]) >>
                 [] child.kind = "CURLY_GROUP" -> << CurlyGroup(TexParentFrom(child)) >>
                 [] child.kind = "MIXED_GROUP" -> << TexMixedGroupFrom(child) >>
                 [] child.kind \in {"CURLY_GROUP_WORD", "CURLY_GROUP_WORD_LIST"} ->
                      << CurlyGroupWordList(TexFromAll(NodeChildren(child))) >>
                 [] child.kind \in {"BRACK_GROUP_KEY_VALUE", "BRACK_GROUP_WORD"} ->
                      << BrackGroup(TexBrackGroupFrom(NodeChildren(child))) >>
                 [] OTHER -> <<>>
         IN  arg \o TexCommandFromArgs(Tail(nodes))

TexCommandFrom(node) ==
    IF FirstToken(node) = <<>> THEN PanicElement
    ELSE Command(to_string(FirstToken(node)[1]),
                 TexCommandFromArgs(NodeChildren(node)) \o blanklines_and_comments(node))

MathEnvironmentNames ==
    { Chars("math"), Chars("displaymath"), Chars("displaymath*"), Chars("equation"),
      Chars("equation*"), Chars("align"), Chars("align*"), Chars("alignat"),
      Chars("alignat*"), Chars("gather"), Chars("gather*"), Chars("multline"),
      Chars("multline*"), Chars("flalign"), Chars("flalign*"), Chars("xalignat"),
      Chars("xalignat*"), Chars("xxalignat"), Chars("xxalignat*"), Chars("array"),
      Chars("cases"), Chars("cases*"), Chars("split"), Chars("IEEEeqnarray"),
      Chars("IEEEeqnarray*"), Chars("dcases"), Chars("rcases"), Chars("tcases"),
      Chars("empheq"), Chars("dmath"), Chars("eqnarray") }

\* node.first_child().unwrap().first_child().unwrap().first_child().unwrap(), as an
\* Option: <<>> when one of the three is None
EnvironmentNameNode(node) ==
    LET c1 == NodeChildren(node)
        c2 == NodeChildren(c1[1])
        c3 == NodeChildren(c2[1])
    IN  IF c1 = <<>> THEN <<>>
        ELSE IF c2 = <<>> THEN <<>>
        ELSE IF c3 = <<>> THEN <<>>
        ELSE << c3[1] >>

\* s.split(',').map(trim).join(", ")
CommaList(s) == Join(TrimAll(Split(s, ",")), <<",", " ">>)

\* the index in node.children of the n-th child node, 0 when there is none
RECURSIVE ChildIndex(_, _, _)
ChildIndex(elements, n, at) ==
    IF at > Len(elements) THEN 0
    ELSE IF IsNode(elements[at])
    THEN IF n = 1 THEN at ELSE ChildIndex(elements, n - 1, at + 1)
    ELSE ChildIndex(elements, n, at + 1)

MathEnvironmentFrom(node) ==
    LET name == EnvironmentNameNode(node)
        nodes == NodeChildren(node)
        first_child == nodes[1]
        opt_args == SelectSeq(NodeChildren(first_child), LAMBDA c : c.kind = "BRACK_GROUP")
        second_child == nodes[2]
        required == second_child.kind = "CURLY_GROUP"
        args == << MathText(CommaList(to_string_all(opt_args))) >>
                \o (IF required THEN << MathText(CommaList(to_string(second_child))) >>
                    ELSE <<>>)
        skip == {ChildIndex(node.children, 1, 1)}
                \cup (IF required THEN {ChildIndex(node.children, 2, 1)} ELSE {})
        rest == [n \in 1..Len(node.children) |->
                    IF n \in skip THEN <<>> ELSE << MathElementFrom(node.children[n]) >>]
        body == SelectSeq(Flatten(rest),
                          LAMBDA e : Join(MathElementFormat(e, 0, 0, 100), <<>>) # <<>>)
    IN  IF name = <<>> \/ Len(nodes) < 2 THEN PanicElement
        ELSE MathEnvironment(to_string(name[1]), args, body)

TexEnvironmentParentFrom(node) ==
    LET name == EnvironmentNameNode(node)
    IN  IF name = <<>> THEN PanicElement
        ELSE IF to_string(name[1]) \in MathEnvironmentNames THEN MathEnvironmentFrom(node)
        ELSE Environment(TexFromAll(NodeChildren(node)))

\* the first KEY node among the descendants, as an Option
FirstKey(node) == SelectSeq(Descendants(node), LAMBDA n : n.kind = "KEY")

TexBeginEnvironmentFrom(node) ==
    LET args == SelectSeq(NodeChildren(node),
                    LAMBDA c : c.kind \in {"CURLY_GROUP", "CURLY_GROUP_WORD",
                        "CURLY_GROUP_COMMAND", "CURLY_GROUP_WORD_LIST",
                        "CURLY_GROUP_KEY_VALUE", "BRACK_GROUP", "BRACK_GROUP_WORD",
                        "BRACK_GROUP_KEY_VALUE", "MIXED_GROUP"})
    IN  IF FirstKey(node) = <<>> THEN PanicElement
        ELSE BeginEnvironment(to_string(FirstKey(node)[1]), TexFromAll(args),
                              blanklines_and_comments(node))

TexEndEnvironmentFrom(node) ==
    IF FirstKey(node) = <<>> THEN PanicElement
    ELSE EndEnvironment(to_string(FirstKey(node)[1]), blanklines_and_comments(node))

TexKeyValFrom(node) ==
    LET keys == SelectSeq(NodeChildren(node), LAMBDA c : c.kind = "KEY")
        vals == SelectSeq(NodeChildren(node), LAMBDA c : c.kind = "VALUE")
    IN  KeyValPair(Trim(to_string_all(keys)),
                   IF vals = <<>> THEN <<>> ELSE << Trim(to_string_all(vals)) >>)

TexFormulaFrom(node) ==
    IF FirstToken(node) = <<>> THEN PanicElement
    ELSE Formula(FirstToken(node)[1].text \in {Chars("$"), Chars("\\(")},
                 MathFromAll(node.children))

TexSectionFrom(node) ==
    LET nodes == NodeChildren(node)
    IN  IF FirstToken(node) = <<>> \/ nodes = <<>> THEN PanicElement
        ELSE IF NodeChildren(nodes[1]) = <<>> THEN PanicElement
        ELSE Section(to_string(FirstToken(node)[1]), to_string(NodeChildren(nodes[1])[1]),
                     TexFromAll(Tail(nodes)))

\* the TEXT | KEY | ERROR arm: a text with a paragraph break becomes a Parent of
\* alternating Text and BlankLine
TexTextFrom(node) ==
    LET text == to_string(node)
        words == SplitOn(text, ParagraphBreak, 1, <<>>)
    IN  IF Len(words) > 1
        THEN Parent(Flatten([n \in 1..Len(words) |-> << Text(words[n]), BlankLine >>]))
        ELSE Text([n \in 1..Len(text) |-> IF text[n] = "\n" THEN " " ELSE text[n]])

\* the element of a kind without an arm of its own
TexFallbackMarker == Text(<<"?">>)
TexFallback == Text(<<>>)
MathFallback == MathText(<<>>)

SectionKinds == {"SECTION", "SUBSECTION", "SUBSUBSECTION", "PARAGRAPH", "CHAPTER", "PART"}

CommandKinds ==
    { "GENERIC_COMMAND", "PACKAGE_INCLUDE", "CLASS_INCLUDE", "HREF", "IMPORT", "CAPTION",
      "LATEX_INCLUDE", "MATH_OPERATOR", "GRAPHICS_INCLUDE", "TIKZ_LIBRARY_IMPORT",
      "CITATION", "COLOR_DEFINITION", "COLOR_REFERENCE", "LABEL_DEFINITION",
      "LABEL_REFERENCE", "LABEL_REFERENCE_RANGE", "INKSCAPE_INCLUDE", "BIBTEX_INCLUDE",
      "BIBLATEX_INCLUDE", "NEW_COMMAND_DEFINITION", "GLOSSARY_ENTRY_REFERENCE",
      "GLOSSARY_ENTRY_DEFINITION" }

TexElementFrom(node) ==
    CASE node.kind \in {"ROOT", "PREAMBLE"} -> Parent(TexParentFrom(node))
      [] node.kind \in SectionKinds -> TexSectionFrom(node)
      [] node.kind \in CommandKinds -> TexCommandFrom(node)
      [] node.kind = "ENVIRONMENT" -> TexEnvironmentParentFrom(node)
      [] node.kind \in {"TEXT", "KEY", "ERROR"} -> TexTextFrom(node)
      [] node.kind = "CURLY_GROUP" -> CurlyGroup(TexParentFrom(node))
      [] node.kind \in {"BRACK_GROUP", "BRACK_GROUP_KEY_VALUE"} ->
            BrackGroup(TexBrackGroupFrom(NodeChildren(node)))
      [] node.kind \in {"CURLY_GROUP_WORD", "CURLY_GROUP_WORD_LIST"} ->
            CurlyGroupWordList(TexFromAll(NodeChildren(node)))
      [] node.kind = "KEY_VALUE_PAIR" -> TexKeyValFrom(node)
      [] node.kind = "MIXED_GROUP" -> TexMixedGroupFrom(node)
      [] node.kind = "ENUM_ITEM" -> EnumItem(TexParentFrom(node))
      [] node.kind \in {"EQUATION", "FORMULA"} -> TexFormulaFrom(node)
      [] node.kind = "BEGIN" -> TexBeginEnvironmentFrom(node)
      [] node.kind = "END" -> TexEndEnvironmentFrom(node)
      [] OTHER -> TexFallback

\* the spacing MathElement::from puts around the operators and after the commas
RECURSIVE SpaceOperators(_, _)
SpaceOperators(txt, ops) ==
    IF ops = <<>> THEN txt
    ELSE SpaceOperators(Join(TrimAll(Split(txt, Head(ops))),
                             <<" ", Head(ops), " ">>),
                        Tail(ops))

MathTextFrom(node) ==
    LET txt == Trim(to_string(node))
    IN  MathText(IF Len(txt) > 1
                 THEN CommaList(SpaceOperators(txt, <<"+", "-", "*", "/", ">", "<">>))
                 ELSE txt)

\* MathBrackGroup::from: the children, a KEY_VALUE_BODY replaced by its children
RECURSIVE MathBrackGroupFrom(_)
MathBrackGroupFrom(nodes) ==
    IF nodes = <<>> THEN <<>>
    ELSE (IF Head(nodes).kind = "KEY_VALUE_BODY"
          THEN MathFromAll(NodeChildren(Head(nodes)))
          ELSE << MathElementFrom(Head(nodes)) >>)
         \o MathBrackGroupFrom(Tail(nodes))

MathMixedGroupFrom(node) ==
    IF FirstToken(node) = <<>> THEN MathText(<<PanicChar>>)
    ELSE MathMixedGroup(to_string(FirstToken(node)[1]), MathFromAll(NodeChildren(node)),
                        CloseDelim(to_string(FirstToken(node)[1])))

\* the arguments MathCommand::from takes from the child nodes
RECURSIVE MathCommandFromArgs(_)
MathCommandFromArgs(nodes) ==
    IF nodes = <<>> THEN <<>>
    ELSE LET child == Head(nodes)
             arg ==
               CASE child.kind \in {"CURLY_GROUP", "CURLY_GROUP_WORD",
                                    "CURLY_GROUP_WORD_LIST"} ->
                      << MathCurlyGroup(MathFromAll(child.children)) >>
                 [] child.kind = "MIXED_GROUP" -> << MathMixedGroupFrom(child) >>
                 [] child.kind \in {"BRACK_GROUP_KEY_VALUE", "BRACK_GROUP_WORD"} ->
                      << MathBrackGroup(MathBrackGroupFrom(NodeChildren(child))) >>
                 [] OTHER -> <<>>
         IN  arg \o MathCommandFromArgs(Tail(nodes))

MathCommandFrom(node) ==
    IF FirstToken(node) = <<>> THEN MathText(<<PanicChar>>)
    ELSE MathCommand(to_string(FirstToken(node)[1]), MathCommandFromArgs(NodeChildren(node)))

MathElementFrom(element) ==
    IF IsNode(element)
    THEN CASE element.kind \in {"MATH_OPERATOR", "COLOR_REFERENCE", "GENERIC_COMMAND",
                                "LABEL_DEFINITION"} -> MathCommandFrom(element)
           [] element.kind = "ENVIRONMENT" -> MathEnvironmentFrom(element)
           [] element.kind \in {"TEXT", "KEY"} -> MathTextFrom(element)
           [] element.kind \in {"CURLY_GROUP", "CURLY_GROUP_WORD", "CURLY_GROUP_WORD_LIST"} ->
                 MathCurlyGroup(MathFromAll(element.children))
           [] element.kind = "BRACK_GROUP" ->
                 MathBrackGroup(MathBrackGroupFrom(NodeChildren(element)))
           [] element.kind = "MIXED_GROUP" -> MathMixedGroupFrom(element)
           [] OTHER -> MathFallback
    ELSE IF element.text = <<"=">> THEN MathText(element.text) ELSE MathText(<<>>)

----------------------------------------------------------------------------
(* The documents and configurations the model formats *)

MaxChildren == 2    \* the longest child list of a root in Docs
MaxTabstop == 2     \* tabstop ranges over 0..MaxTabstop
MaxWidth == 9       \* the largest line width in Widths

Widths == {1, 3, MaxWidth}

T(s) == Text(Chars(s))
MT(s) == MathText(Chars(s))
Cmd(name, args) == Command(Chars(name), args)
Env(name, args, body) ==
    Environment(<<BeginEnvironment(Chars(name),
                                   <<CurlyGroupWordList(<<T(name)>>)>> \o args, <<>>)>>
                \o body \o <<EndEnvironment(Chars(name), <<>>)>>)

\* the children a root may have
Elements ==
    { T("ab"), T("ab cde"), T(".x"),
      Cmd("\\a", <<>>), Cmd("\\bcdef", <<CurlyGroup(<<T("ab")>>)>>),
      Cmd("\\\\", <<>>), Cmd("\\title", <<CurlyGroup(<<T("ab")>>)>>),
      CurlyGroup(<<T("ab cde")>>),
      BrackGroup(<<KeyValPair(Chars("k"), <<Chars("v")>>), KeyValPair(Chars("w"), <<>>)>>),
      MixedGroup(<<"(">>, <<T("a,b")>>, <<")">>),
      CurlyGroupWordList(<<T("ab"), T("c")>>),
      EnumItem(<<>>), EnumItem(<<T("ab cde")>>),
      Section(Chars("\\chapter"), Chars("C"), <<T("ab cde")>>),
      Section(Chars("\\section"), Chars("S"),
              <<Section(Chars("\\subsection"), Chars("U"), <<T("ab")>>)>>),
      BlankLine,
      Parent(<<T("ab"), BlankLine, T("cde"), BlankLine>>),
      Env("c", <<>>, <<T("ab"), Cmd("\\\\", <<>>), T("cde")>>),
      Env("c", <<CurlyGroup(<<T("ab cde fg")>>)>>, <<T("ab")>>),
      Env("d", <<>>, <<Env("e", <<>>, <<T("ab cde")>>)>>),
      Formula(TRUE, <<MT("x")>>),
      Formula(TRUE, <<MathCommand(Chars("\\a"), <<MathCurlyGroup(<<MT("x")>>)>>), MT("y")>>),
      Formula(FALSE, <<MT("x"), MT("="), MT("y")>>),
      MathEnvironment(Chars("align"), <<MT("")>>,
                      <<MT("a"), MT("&="), MT("b"), MathCommand(Chars("\\\\"), <<>>),
                        MT("cde"), MT("&="), MT("f")>>) }

RECURSIVE SeqsUpTo(_, _)
SeqsUpTo(S, n) ==
    IF n = 0 THEN {<<>>}
    ELSE LET shorter == SeqsUpTo(S, n - 1)
         IN  shorter \cup {Append(s, e) : s \in shorter, e \in S}

Docs == {Parent(children) : children \in SeqsUpTo(Elements, MaxChildren) \ {<<>>}}

----------------------------------------------------------------------------
(* Formatter *)

\* Formatter::new: lib.rs fixes the two configuration numbers to 2 and 80, the callers
\* of tests.rs pass them (Formatter::new(2, 80)); here they are the parameters
FormatterNew(tabstop, line_length) ==
    [context |-> [tabstop |-> tabstop, indent_level |-> 0, math_mode |-> FALSE,
                  line_length |-> line_length],
     doc |-> Text(<<>>)]

Init ==
    /\ \E ts \in 0..MaxTabstop, w \in Widths :
          /\ context = FormatterNew(ts, w).context
          /\ doc = FormatterNew(ts, w).doc
    /\ overflow_checks \in BOOLEAN
    /\ pending \in {<<d>> : d \in Docs}
    /\ pc = "idle"
    /\ i = 0
    /\ line = <<>>
    /\ output = <<>>
    /\ l = 0
    /\ result = <<>>
    /\ EngineIdle

\* a call that keeps the lines of the call before it
CallKeepingOutput ==
    /\ pc \in {"idle", "done"}
    /\ pending # <<>>
    /\ doc' = Head(pending)
    /\ pending' = Tail(pending)
    /\ line' = TexParentInit(0, context.tabstop).line
    /\ l' = TexParentInit(0, context.tabstop).l
    /\ i' = 1
    /\ pc' = "loop"
    /\ result' = <<>>
    /\ UNCHANGED <<context, overflow_checks, output>>
    /\ UNCHANGED engine_vars

\* Formatter::format up to the first child of the root: self.doc = TexElement::from(root)
\* and the locals of the root's TexParent::format
Call ==
    /\ pc \in {"idle", "done"}
    /\ pending # <<>>
    /\ doc' = Head(pending)
    /\ pending' = Tail(pending)
    /\ LET st == TexParentInit(0, context.tabstop)
       IN  /\ line' = st.line
           /\ output' = st.output
           /\ l' = st.l
    /\ i' = 1
    /\ pc' = "loop"
    /\ result' = <<>>
    /\ UNCHANGED <<context, overflow_checks>>
    /\ UNCHANGED engine_vars

\* one iteration of the root's child loop
Step ==
    /\ pc = "loop"
    /\ i <= Len(doc.children)
    /\ \E st \in { TexParentStep(doc.children, i, [line |-> line, output |-> output, l |-> l],
                                  0, context.tabstop, context.line_length) } :
          /\ line' = st.line
          /\ output' = st.output
          /\ l' = st.l
          /\ pc' = IF StatePoisoned(st) THEN "aborted" ELSE "loop"
    /\ i' = i + 1
    /\ UNCHANGED <<context, doc, overflow_checks, pending, result>>
    /\ UNCHANGED engine_vars

\* the end-of-children flush of the root and the join of Formatter::format
Finish ==
    /\ pc = "loop"
    /\ i > Len(doc.children)
    /\ \E out \in { TexParentFlush([line |-> line, output |-> output, l |-> l],
                                    context.tabstop, context.line_length) } :
          /\ output' = out
          /\ pc' = IF Poisoned(out) THEN "aborted" ELSE "done"
          /\ result' = IF Poisoned(out) THEN <<>> ELSE Join(out, <<"\n">>)
    /\ UNCHANGED <<context, doc, overflow_checks, pending, i, line, l>>
    /\ UNCHANGED engine_vars

Next == Call \/ Step \/ Finish

Spec == Init /\ [][Next]_vars

----------------------------------------------------------------------------
(* Text-only documents, for the word wrap *)

TextLeaves == { T("ab"), T("ab cde"), T("abcdefghijk"), T("a  b c"), T(" ") }

TextEnvs ==
    {Env("c", <<>>, <<t>>) : t \in TextLeaves}
    \cup {Env("c", <<>>, <<T("ab"), t>>) : t \in TextLeaves}
    \cup {Env("d", <<>>, <<Env("e", <<>>, <<t>>)>>) : t \in TextLeaves}
    \cup {Env("d", <<>>, <<T("ab"), Env("e", <<>>, <<Env("f", <<>>, <<t>>)>>)>>) :
            t \in TextLeaves}

TextDocs ==
    {Parent(children) : children \in SeqsUpTo(TextLeaves \cup TextEnvs, MaxChildren) \ {<<>>}}

InitText ==
    /\ \E ts \in 0..MaxTabstop, w \in Widths :
          /\ context = FormatterNew(ts, w).context
          /\ doc = FormatterNew(ts, w).doc
    /\ overflow_checks \in BOOLEAN
    /\ pending \in {<<d>> : d \in TextDocs}
    /\ pc = "idle"
    /\ i = 0
    /\ line = <<>>
    /\ output = <<>>
    /\ l = 0
    /\ result = <<>>
    /\ EngineIdle

SpecText == InitText /\ [][Next]_vars

\* every (child list, indent level) TexParent::format is called with while a
\* tree of Parents, Environments and Text is formatted at indent level k
RECURSIVE PackerCalls(_, _)
PackerCalls(e, k) ==
    IF e.kind = "Parent"
    THEN {<<e.children, k>>} \cup
         UNION {PackerCalls(e.children[n], k) : n \in 1..Len(e.children)}
    ELSE IF e.kind = "Environment"
    THEN LET sub == IF /\ e.children # <<>>
                       /\ e.children[1].kind = "BeginEnvironment"
                       /\ e.children[1].name \in {Chars("document"), Chars("verbatim")}
                    THEN 0 ELSE 1
         IN  {<<e.children, k + sub>>} \cup
             UNION {PackerCalls(e.children[n], k + sub) : n \in 1..Len(e.children)}
    ELSE {}

RECURSIVE TextOnly(_)
TextOnly(e) ==
    \/ e.kind \in {"Text", "BeginEnvironment", "EndEnvironment"}
    \/ /\ e.kind \in {"Parent", "Environment"}
       /\ \A n \in 1..Len(e.children) : TextOnly(e.children[n])

\* the line without one trailing space
StripOneSpace(ln) ==
    IF ln # <<>> /\ ln[Len(ln)] = " " THEN SubSeq(ln, 1, Len(ln) - 1) ELSE ln

\* the line is indentation and one word
SingleWord(ln) == Trim(ln) # <<>> /\ \A n \in 1..Len(Trim(ln)) : Trim(ln)[n] # " "

WidthOK(ln, line_length) == Len(StripOneSpace(ln)) <= line_length \/ SingleWord(ln)

\* C1: in a Text-only tree every line a packer emits is at most line_length
\* long once one trailing space is removed, unless it is a single word
WidthRespect ==
    (pc = "done" /\ TextOnly(doc)) =>
        \A call \in PackerCalls(doc, 0) :
            LET out == TexParentFormat(Parent(call[1]), call[2],
                                       context.tabstop, context.line_length)
            IN  \A n \in 1..Len(out) : WidthOK(out[n], context.line_length)

\* the same, for the lines that are not blank
WidthRespectNonBlank ==
    (pc = "done" /\ TextOnly(doc)) =>
        \A call \in PackerCalls(doc, 0) :
            LET out == TexParentFormat(Parent(call[1]), call[2],
                                       context.tabstop, context.line_length)
            IN  \A n \in 1..Len(out) : Blank(out[n]) \/ WidthOK(out[n], context.line_length)

----------------------------------------------------------------------------
(* Claims about the packer of the root *)

Children == doc.children

\* the current line after the head of the loop body
LineAtHead == IF Len(line) > context.line_length THEN <<>> ELSE line

\* C2: when a step flushes the line that ends with a Command because the next
\* child is a Command too, the flushed line ends with %
CommentGuard ==
    [][ ( /\ pc = "loop" /\ pc' = "loop" /\ i' = i + 1
          /\ i >= 2 /\ i <= Len(Children)
          /\ Children[i - 1].kind = "Command"
          /\ Children[i].kind = "Command"
          /\ ~Blank(line)
          /\ Len(output') > Len(output)
          /\ TrimEnd(output'[Len(output) + 1])
                \in {TrimEnd(line), Append(TrimEnd(line), "%")} )
        => EndsWith(output'[Len(output) + 1], <<"%">>) ]_vars

\* the delimiters a tree carries: ch is one of { } [ ]
RECURSIVE Carried(_, _)
RECURSIVE CarriedAll(_, _)
CarriedAll(children, ch) ==
    IF children = <<>> THEN 0
    ELSE Carried(Head(children), ch) + CarriedAll(Tail(children), ch)

Carried(e, ch) ==
    LET one(c) == IF c = ch THEN 1 ELSE 0
    IN  CASE e.kind \in {"Text", "Comment"} -> CountChar(e.text, ch)
          [] e.kind \in {"CurlyGroup", "CurlyGroupWordList"} ->
                one("{") + CarriedAll(e.children, ch) + one("}")
          [] e.kind = "BrackGroup" -> one("[") + CarriedAll(e.children, ch) + one("]")
          [] e.kind = "MixedGroup" ->
                CountChar(e.open_delim, ch) + CarriedAll(e.children, ch)
                + CountChar(e.close_delim, ch)
          [] e.kind \in {"Command", "MathCommand"} -> CarriedAll(e.args, ch)
          [] e.kind \in {"Parent", "Environment", "EnumItem", "Formula", "MathParent"} ->
                CarriedAll(e.children, ch)
          [] e.kind = "MathText" -> CountChar(e.text, ch)
          [] e.kind = "MathCurlyGroup" -> one("{") + CarriedAll(e.children, ch) + one("}")
          [] e.kind = "MathBrackGroup" -> one("[") + CarriedAll(e.children, ch) + one("]")
          [] e.kind = "MathMixedGroup" ->
                CountChar(e.open_delim, ch) + CarriedAll(e.children, ch)
                + CountChar(e.close_delim, ch)
          [] e.kind = "MathEnvironment" ->
                2 * (one("{") + one("}")) + CarriedAll(e.args, ch)
                + CarriedAll(e.children, ch)
          [] e.kind = "Section" -> one("{") + one("}") + CarriedAll(e.children, ch)
          [] e.kind = "BeginEnvironment" -> CarriedAll(e.args, ch) + CarriedAll(e.tail, ch)
          [] e.kind = "EndEnvironment" -> one("{") + one("}") + CarriedAll(e.tail, ch)
          [] OTHER -> 0

\* C3: the formatted output holds as many {, }, [ and ] as the tree carries
BraceBalance ==
    pc = "done" =>
        \A ch \in {"{", "}", "[", "]"} : CountInLines(output, ch) = Carried(doc, ch)

\* C4: no format call aborts
Totality == pc # "aborted"

\* C6: with a line width of at least 1, the budget handed to a curly group or
\* to a command placed on the line is never 0
ZeroWidthSentinel ==
    ( /\ pc = "loop" /\ i <= Len(Children)
      /\ context.line_length >= 1
      /\ Children[i].kind = "CurlyGroup" )
    => USub(context.line_length, Len(LineAtHead)) # 0

StartsWith(s, prefix) ==
    Len(s) >= Len(prefix) /\ SubSeq(s, 1, Len(prefix)) = prefix

\* the indent level of the body of an environment reached at level k
BodyLevel(env, k) ==
    IF /\ env.children # <<>>
       /\ env.children[1].kind = "BeginEnvironment"
       /\ env.children[1].name \in {Chars("document"), Chars("verbatim")}
    THEN k ELSE k + 1

\* every (environment, indent level) TexEnvironment::format is called with
\* while a tree of Parents and Environments is formatted at indent level k
RECURSIVE EnvCalls(_, _)
EnvCalls(e, k) ==
    IF e.kind = "Parent"
    THEN UNION {EnvCalls(e.children[n], k) : n \in 1..Len(e.children)}
    ELSE IF e.kind = "Environment"
    THEN {<<e, k>>} \cup
         UNION {EnvCalls(e.children[n], BodyLevel(e, k)) : n \in 1..Len(e.children)}
    ELSE {}

EnvName(env) == env.children[1].name

\* the layout of the lines of an environment reached at level k: \begin{name}
\* first and \end{name} last at k * tabstop, and every line between them that
\* is not blank at no less than the indentation of the body
LaidOut(env, k, tabstop, out) ==
    /\ Len(out) >= 2
    /\ StartsWith(out[1], indent_str(k, tabstop) \o Chars("\\begin{") \o EnvName(env)
                          \o <<"}">>)
    /\ out[Len(out)] = indent_str(k, tabstop) \o Chars("\\end{") \o EnvName(env) \o <<"}">>
    /\ \A n \in 2..(Len(out) - 1) :
          Blank(out[n]) \/ LeadingSpaces(out[n]) >= BodyLevel(env, k) * tabstop

\* C9: every environment of the formatted tree renders with its \begin line
\* and \end line at k * tabstop and its body lines one level deeper
EnvironmentLayout ==
    pc = "done" =>
        \A call \in EnvCalls(doc, 0) :
            LET out == TexElementFormat(call[1], call[2], context.tabstop,
                                        context.line_length)
            IN  Poisoned(out) \/ LaidOut(call[1], call[2], context.tabstop, out)

HeadingLine(section) == section.heading \o <<"{">> \o section.name \o <<"}">>

\* lines is an empty line, the heading line, an empty line and the lines of
\* the body; a body that starts with a section starts with that section's
\* empty line, heading line and empty line
SectionShape(section, lines, tabstop, line_length) ==
    /\ Len(lines) >= 3
    /\ SubSeq(lines, 1, 3) = << <<>>, HeadingLine(section), <<>> >>
    /\ LET body == SubSeq(lines, 4, Len(lines))
       IN  /\ body = TexParentFormat(Parent(section.children), 0, tabstop, line_length)
           /\ ( /\ section.children # <<>>
                /\ section.children[1].kind = "Section" )
              => /\ Len(body) >= 3
                 /\ SubSeq(body, 1, 3) = << <<>>, HeadingLine(section.children[1]), <<>> >>

\* the lines a step adds after it has flushed the current line
Added ==
    LET from == IF Blank(LineAtHead) /\ Len(line) <= context.line_length
                THEN Len(output) + 1 ELSE Len(output) + 2
    IN  SubSeq(output', from, Len(output'))

----------------------------------------------------------------------------
(* One Formatter that formats two trees *)

ReuseElements ==
    { T("ab cde"), Cmd("\\a", <<>>), CurlyGroup(<<T("ab cde")>>), BlankLine,
      Section(Chars("\\section"), Chars("S"), <<T("ab")>>),
      Env("c", <<>>, <<T("ab")>>) }

ReuseDocs == {Parent(children) : children \in SeqsUpTo(ReuseElements, MaxChildren) \ {<<>>}}

InitReuse ==
    /\ \E ts \in 0..MaxTabstop, w \in Widths :
          /\ context = FormatterNew(ts, w).context
          /\ doc = FormatterNew(ts, w).doc
    /\ overflow_checks \in BOOLEAN
    /\ pending \in {<<a, b>> : a \in ReuseDocs, b \in {Parent(<<e>>) : e \in ReuseElements}}
    /\ pc = "idle"
    /\ i = 0
    /\ line = <<>>
    /\ output = <<>>
    /\ l = 0
    /\ result = <<>>
    /\ EngineIdle

SpecReuse == InitReuse /\ [][Next]_vars

\* what Formatter::format returns for a tree on a Formatter made for it
Fresh(root, tabstop, line_length) ==
    Join(TexElementFormat(root, 0, tabstop, line_length), <<"\n">>)

\* C7: every call returns what a fresh Formatter returns for its tree, the
\* call after another call too, and no step changes the configuration
Statelessness ==
    /\ [](pc = "done" => result = Fresh(doc, context.tabstop, context.line_length))
    /\ [][context' = context]_vars

StatelessnessWitness ==
    /\ pc = "done"
    /\ pending = <<>>
    /\ doc = Parent(<<CurlyGroup(<<T("ab cde")>>)>>)
    /\ result = Chars("{ab cde}")

----------------------------------------------------------------------------
(* The classifier applied to one syntax element *)

Tok(kind, str) == SyntaxToken(kind, Chars(str))
Word(str) == SyntaxNode("TEXT", <<Tok("WORD", str)>>)
Key(str) == SyntaxNode("KEY", <<Tok("WORD", str)>>)
Curly(children) ==
    SyntaxNode("CURLY_GROUP", <<Tok("L_CURLY", "{")>> \o children \o <<Tok("R_CURLY", "}")>>)
CurlyWord(str) ==
    SyntaxNode("CURLY_GROUP_WORD", <<Tok("L_CURLY", "{"), Key(str), Tok("R_CURLY", "}")>>)
Begin(name) == SyntaxNode("BEGIN", <<Tok("COMMAND_NAME", "\\begin"), CurlyWord(name)>>)
End(name) == SyntaxNode("END", <<Tok("COMMAND_NAME", "\\end"), CurlyWord(name)>>)
Pair(key, value) ==
    SyntaxNode("KEY_VALUE_PAIR",
               <<Key(key), Tok("EQUALITY_SIGN", "="),
                 SyntaxNode("VALUE", <<Word(value)>>)>>)

\* the kinds the formatter names without giving TexElement::from an arm for them
OtherKinds ==
    { "CURLY_GROUP_COMMAND", "CURLY_GROUP_KEY_VALUE", "BRACK_GROUP_WORD", "KEY_VALUE_BODY",
      "VALUE", "COMMENT", "COMMAND_NAME" }

\* the child lists of the nodes of the kinds without an arm
OtherShapes ==
    { <<>>, <<Tok("WORD", "ab")>>, <<Word("ab")>>,
      <<Tok("L_CURLY", "{"), Tok("COMMAND_NAME", "\\a"), Tok("R_CURLY", "}")>>,
      <<Key("k"), Tok("COMMA", ","), Pair("k", "v")>> }

SyntaxNodes ==
    {SyntaxNode(k, shape) : k \in OtherKinds, shape \in OtherShapes}
    \cup {SyntaxNode(k, <<Tok("COMMAND_NAME", "\\a"), Curly(<<Word("ab")>>)>>) :
            k \in CommandKinds}
    \cup {SyntaxNode(k, <<Tok("COMMAND_NAME", "\\section"), Curly(<<Word("S")>>),
                          Word("ab")>>) : k \in SectionKinds}
    \cup {SyntaxNode(k, <<Word("ab"), Tok("COMMENT", "%c"),
                          SyntaxNode("VALUE", <<Word("v")>>)>>) : k \in {"ROOT", "PREAMBLE"}}
    \cup {SyntaxNode(k, <<Tok("WORD", "a+b,c")>>) : k \in {"TEXT", "KEY", "ERROR"}}
    \cup {SyntaxNode(k, <<Tok("WORD", "ab"), Tok("LINE_BREAK", "\n\n"), Tok("WORD", "c")>>) :
            k \in {"TEXT", "KEY", "ERROR"}}
    \cup {SyntaxNode("ENVIRONMENT", <<Begin(name), Word("ab"), End(name)>>) :
            name \in {"c", "align"}}
    \cup {Curly(<<Word("ab"), SyntaxNode("KEY_VALUE_BODY", <<Word("c")>>)>>),
          CurlyWord("ab"),
          SyntaxNode("CURLY_GROUP_WORD_LIST",
                     <<Tok("L_CURLY", "{"), Key("ab"), Tok("COMMA", ","), Key("c"),
                       Tok("R_CURLY", "}")>>),
          SyntaxNode("BRACK_GROUP",
                     <<Tok("L_BRACK", "["), Word("ab"), Tok("R_BRACK", "]")>>),
          SyntaxNode("BRACK_GROUP_KEY_VALUE",
                     <<Tok("L_BRACK", "["),
                       SyntaxNode("KEY_VALUE_BODY", <<Pair("k", "v"), Tok("COMMA", ","),
                                                      Pair("w", "x")>>),
                       Tok("R_BRACK", "]")>>),
          Pair("k", "v"),
          SyntaxNode("MIXED_GROUP",
                     <<Tok("L_PAREN", "("), Word("a,b"), Tok("R_PAREN", ")")>>),
          SyntaxNode("ENUM_ITEM", <<Tok("COMMAND_NAME", "\\item"), Word("ab")>>),
          SyntaxNode("FORMULA",
                     <<Tok("DOLLAR", "$"), Word("x"), Tok("EQUALITY_SIGN", "="),
                       SyntaxNode("VALUE", <<Word("v")>>), Word("y"), Tok("DOLLAR", "$")>>),
          SyntaxNode("EQUATION",
                     <<Tok("COMMAND_NAME", "\\["), Word("x"),
                       SyntaxNode("ENUM_ITEM", <<Word("ab")>>), Tok("COMMAND_NAME", "\\]")>>),
          Begin("c"), End("c")}

SyntaxElements == SyntaxNodes \cup {Tok("EQUALITY_SIGN", "="), Tok("WORD", "x")}

\* a panic inside a constructor
RECURSIVE Unbuilt(_)
Unbuilt(e) ==
    LET any(children) == \E n \in 1..Len(children) : Unbuilt(children[n])
    IN  CASE e.kind \in {"Text", "MathText", "Comment"} -> PoisonedLine(e.text)
          [] e.kind \in {"Command", "MathCommand"} -> any(e.args)
          [] e.kind = "MathEnvironment" -> any(e.args) \/ any(e.children)
          [] e.kind = "BeginEnvironment" -> any(e.args) \/ any(e.tail)
          [] e.kind = "EndEnvironment" -> any(e.tail)
          [] e.kind \in {"BlankLine", "KeyValPair"} -> FALSE
          [] OTHER -> any(e.children)

InitClassify ==
    /\ \E ts \in 0..MaxTabstop, w \in Widths :
          /\ context = FormatterNew(ts, w).context
          /\ doc = FormatterNew(ts, w).doc
    /\ overflow_checks \in BOOLEAN
    /\ pending \in {<<e>> : e \in SyntaxElements}
    /\ pc = "idle"
    /\ i = 0
    /\ line = <<>>
    /\ output = <<>>
    /\ l = 0
    /\ result = <<>>
    /\ EngineIdle

\* TexElement::from(node)
ClassifyTex ==
    /\ pc = "idle"
    /\ IsNode(Head(pending))
    /\ doc' = TexElementFrom(Head(pending))
    /\ pc' = IF Unbuilt(doc') THEN "unbuilt" ELSE "tex"
    /\ UNCHANGED <<context, overflow_checks, pending, i, line, output, l, result>>
    /\ UNCHANGED engine_vars

\* MathElement::from(element)
ClassifyMath ==
    /\ pc = "idle"
    /\ doc' = MathElementFrom(Head(pending))
    /\ pc' = IF Unbuilt(doc') THEN "unbuilt" ELSE "math"
    /\ UNCHANGED <<context, overflow_checks, pending, i, line, output, l, result>>
    /\ UNCHANGED engine_vars

\* the element's format(0, tabstop, line_length).join("\n")
Render ==
    /\ pc \in {"tex", "math"}
    /\ \E out \in { IF pc = "tex"
                     THEN TexElementFormat(doc, 0, context.tabstop, context.line_length)
                     ELSE MathElementFormat(doc, 0, context.tabstop, context.line_length) } :
          /\ output' = out
          /\ result' = IF Poisoned(out) THEN <<>> ELSE Join(out, <<"\n">>)
          /\ pc' = IF Poisoned(out) THEN "aborted"
                   ELSE IF pc = "tex" THEN "texdone" ELSE "mathdone"
    /\ UNCHANGED <<context, doc, overflow_checks, pending, i, line, l>>
    /\ UNCHANGED engine_vars

NextClassify == ClassifyTex \/ ClassifyMath \/ Render

SpecClassify == InitClassify /\ [][NextClassify]_vars

\* the kinds TexElement::from recognizes
TexRecognized ==
    {"ROOT", "PREAMBLE", "ENVIRONMENT", "TEXT", "KEY", "ERROR", "CURLY_GROUP", "BRACK_GROUP",
     "BRACK_GROUP_KEY_VALUE", "CURLY_GROUP_WORD", "CURLY_GROUP_WORD_LIST", "KEY_VALUE_PAIR",
     "MIXED_GROUP", "ENUM_ITEM", "EQUATION", "FORMULA", "BEGIN", "END"}
    \cup SectionKinds \cup CommandKinds

\* the kinds MathElement::from recognizes
MathRecognized ==
    {"MATH_OPERATOR", "COLOR_REFERENCE", "GENERIC_COMMAND", "LABEL_DEFINITION", "ENVIRONMENT",
     "TEXT", "KEY", "CURLY_GROUP", "BRACK_GROUP", "CURLY_GROUP_WORD",
     "CURLY_GROUP_WORD_LIST", "MIXED_GROUP"}

\* the classified element is a node of a kind its classifier does not recognize
Unrecognized ==
    /\ IsNode(Head(pending))
    /\ \/ pc \in {"tex", "texdone"} /\ Head(pending).kind \notin TexRecognized
       \/ pc \in {"math", "mathdone"} /\ Head(pending).kind \notin MathRecognized

\* C8: both classifiers build an element for every node; a node of a kind
\* they do not recognize becomes the empty Text, which renders as one empty
\* string
ClassifierFallback ==
    /\ pc \notin {"unbuilt"}
    /\ (Unrecognized /\ pc \in {"tex", "texdone"}) => doc = Text(<<>>)
    /\ (Unrecognized /\ pc \in {"math", "mathdone"}) => doc = MathText(<<>>)
    /\ Unrecognized => pc # "aborted"
    /\ (Unrecognized /\ pc \in {"texdone", "mathdone"}) =>
            output = << <<>> >> /\ result = <<>>

ClassifierFallbackWitness ==
    /\ pc = "texdone"
    /\ Head(pending).kind = "KEY_VALUE_BODY"
    /\ Head(pending).children # <<>>
    /\ doc = Text(<<>>)
    /\ result = <<>>

----------------------------------------------------------------------------
(* Groups: roots whose children are groups, alone, after text and inside an
   environment *)

GroupElements ==
    { T("ab"), Cmd("\\a", <<>>),
      BrackGroup(<<KeyValPair(Chars("k"), <<Chars("v")>>), KeyValPair(Chars("w"), <<>>)>>),
      BrackGroup(<<T("ab cde fg hi")>>),
      BrackGroup(<<CurlyGroup(<<T("ab cde")>>), T("f")>>),
      BrackGroup(<<>>),
      CurlyGroupWordList(<<T("ab"), T("c")>>),
      CurlyGroupWordList(<<T("abcdefghij")>>),
      CurlyGroupWordList(<<>>),
      CurlyGroup(<<T("ab")>>),
      CurlyGroup(<<T("ab cde")>>),
      CurlyGroup(<<T("ab"), Cmd("\\a", <<>>), T("cde")>>),
      CurlyGroup(<<CurlyGroup(<<T("ab cde")>>)>>),
      Env("c", <<>>, <<CurlyGroup(<<T("ab cde")>>)>>),
      Env("c", <<>>, <<T("ab"), CurlyGroupWordList(<<T("ab"), T("c")>>)>>) }

GroupDocs == {Parent(children) : children \in SeqsUpTo(GroupElements, MaxChildren) \ {<<>>}}

InitGroup ==
    /\ \E ts \in 0..MaxTabstop, w \in Widths :
          /\ context = FormatterNew(ts, w).context
          /\ doc = FormatterNew(ts, w).doc
    /\ overflow_checks \in BOOLEAN
    /\ pending \in {<<d>> : d \in GroupDocs}
    /\ pc = "idle"
    /\ i = 0
    /\ line = <<>>
    /\ output = <<>>
    /\ l = 0
    /\ result = <<>>
    /\ EngineIdle

SpecGroup == InitGroup /\ [][Next]_vars

\* the delimiters of the two comma-joined groups
OpenOf(group) == IF group.kind = "BrackGroup" THEN <<"[">> ELSE <<"{">>
CloseOf(group) == IF group.kind = "BrackGroup" THEN <<"]">> ELSE <<"}">>

\* the opening delimiter, the lines the children render as with ", " between
\* them, and the closing delimiter
CommaJoined(group, indent_level, tabstop, line_length) ==
    OpenOf(group)
    \o Join(FormatAll(group.children, indent_level, tabstop, line_length), <<",", " ">>)
    \o CloseOf(group)

\* C11: the step of a bracket group or word-list child appends one piece to
\* the open line, the opening delimiter, the children's renderings joined by
\* ", " and the closing delimiter, and emits no line of its own, at every width
CommaJoinedGroups ==
    [][ ( /\ pc = "loop" /\ pc' = "loop" /\ i' = i + 1
          /\ i <= Len(Children)
          /\ Children[i].kind \in {"BrackGroup", "CurlyGroupWordList"} )
        => /\ line' = LineAtHead \o CommaJoined(Children[i], 0, context.tabstop,
                                                context.line_length)
           /\ output' = IF Len(line) > context.line_length
                        THEN Append(output, line) ELSE output
           /\ TexElementFormat(Children[i], 1, context.tabstop, 1)
                 = << CommaJoined(Children[i], 1, context.tabstop, 1) >> ]_vars

CommaJoinedGroupsWitness ==
    /\ pc = "loop" /\ i = 3
    /\ context.line_length = 3
    /\ Children[1].kind = "Text"
    /\ Children[2] = BrackGroup(<<CurlyGroup(<<T("ab cde")>>), T("f")>>)
    /\ output = <<>>
    /\ Len(line) > MaxWidth
    /\ line[Len(line)] = "]"

----------------------------------------------------------------------------
(* List items: at the root and inside an environment *)

ItemElements ==
    { T("ab"),
      EnumItem(<<T("ab cde")>>),
      EnumItem(<<BrackGroup(<<T("x")>>), T("ab")>>),
      EnumItem(<<T("ab"), Formula(TRUE, <<MT("x")>>), T("cde")>>),
      Env("e", <<>>, <<EnumItem(<<T("ab cde")>>)>>),
      Env("e", <<>>, <<EnumItem(<<BrackGroup(<<T("x")>>), T("ab")>>),
                       EnumItem(<<T("c")>>)>>) }

ItemDocs == {Parent(children) : children \in SeqsUpTo(ItemElements, MaxChildren) \ {<<>>}}

InitItem ==
    /\ \E ts \in 0..MaxTabstop, w \in Widths :
          /\ context = FormatterNew(ts, w).context
          /\ doc = FormatterNew(ts, w).doc
    /\ overflow_checks \in BOOLEAN
    /\ pending \in {<<d>> : d \in ItemDocs}
    /\ pc = "idle"
    /\ i = 0
    /\ line = <<>>
    /\ output = <<>>
    /\ l = 0
    /\ result = <<>>
    /\ EngineIdle

SpecItem == InitItem /\ [][Next]_vars

\* every (list item, indent level) TexEnumItem::format is called with while a
\* tree of Parents and Environments is formatted at indent level k
RECURSIVE ItemCalls(_, _)
ItemCalls(e, k) ==
    IF e.kind = "Parent"
    THEN UNION {ItemCalls(e.children[n], k) : n \in 1..Len(e.children)}
    ELSE IF e.kind = "Environment"
    THEN UNION {ItemCalls(e.children[n], BodyLevel(e, k)) : n \in 1..Len(e.children)}
    ELSE IF e.kind = "EnumItem" THEN {<<e, k>>}
    ELSE {}

\* the first line of an item: the indentation, \item, one space unless the
\* body starts with [, and the first line of the body
ItemMarker(first, k, tabstop, out) ==
    /\ out # <<>>
    /\ out[1] = indent_str(k, tabstop) \o Chars("\\item")
                \o (IF StartsWith(first, <<"[">>) THEN <<>> ELSE <<" ">>)
                \o first

\* C12: every list item of the formatted tree, at every indent level, starts
\* with \item, one space and the first body line, and with no space exactly
\* when the body starts with [
ItemMarkerRule ==
    pc = "done" =>
        \A call \in ItemCalls(doc, 0) :
            LET body == TexParentFormat(Parent(call[1].children), call[2], context.tabstop,
                                        USub(context.line_length, 6))
                out == TexElementFormat(call[1], call[2], context.tabstop,
                                        context.line_length)
            IN  Poisoned(out) \/ ItemMarker(Trim(body[1]), call[2], context.tabstop, out)

----------------------------------------------------------------------------
(* Formulas and math environments: at the root, after text and inside an
   environment *)

MathElements ==
    { T("ab"),
      Formula(TRUE, <<MT("abc")>>),
      Formula(TRUE, <<MT("abcd")>>),
      Formula(TRUE, <<MathCommand(Chars("\\a"), <<MathCurlyGroup(<<MT("x")>>)>>), MT("y")>>),
      Formula(FALSE, <<MT("x"), MT("="), MT("y")>>),
      Formula(FALSE, <<MT("a"), MathCommand(Chars("\\\\"), <<>>), MT("bcdefghijk")>>),
      Formula(FALSE, <<>>),
      Env("c", <<>>, <<Formula(FALSE, <<MT("x")>>)>>),
      Env("c", <<>>, <<T("ab"), Formula(TRUE, <<MT("abcd")>>)>>),
      MathEnvironment(Chars("align"), <<MT("")>>,
                      <<MT("a"), MT("&="), MT("b"), MathCommand(Chars("\\\\"), <<>>),
                        MT("cde"), MT("&="), MT("f")>>),
      MathEnvironment(Chars("align"), <<MT("")>>,
                      <<MT("a"), MT("&"), MT("bc"), MT("&"), MT("d"),
                        MathCommand(Chars("\\\\"), <<>>),
                        MT("efg"), MT("&"), MT("h")>>),
      MathEnvironment(Chars("align"), <<MT("")>>, <<MT("a&"), MT("=b")>>),
      MathEnvironment(Chars("gather"), <<MT("")>>,
                      <<MT("a"), MathCommand(Chars("\\\\"), <<>>), MT("bc")>>) }

MathDocs == {Parent(children) : children \in SeqsUpTo(MathElements, MaxChildren) \ {<<>>}}

InitMath ==
    /\ \E ts \in 0..MaxTabstop, w \in Widths :
          /\ context = FormatterNew(ts, w).context
          /\ doc = FormatterNew(ts, w).doc
    /\ overflow_checks \in BOOLEAN
    /\ pending \in {<<d>> : d \in MathDocs}
    /\ pc = "idle"
    /\ i = 0
    /\ line = <<>>
    /\ output = <<>>
    /\ l = 0
    /\ result = <<>>
    /\ EngineIdle

SpecMath == InitMath /\ [][Next]_vars

\* every (formula, indent level) TexFormula::format is called with while a
\* tree of Parents and Environments is formatted at indent level k
RECURSIVE FormulaCalls(_, _)
FormulaCalls(e, k) ==
    IF e.kind = "Parent"
    THEN UNION {FormulaCalls(e.children[n], k) : n \in 1..Len(e.children)}
    ELSE IF e.kind = "Environment"
    THEN UNION {FormulaCalls(e.children[n], BodyLevel(e, k)) : n \in 1..Len(e.children)}
    ELSE IF e.kind = "Formula" THEN {<<e, k>>}
    ELSE {}

\* the lines between the first and the last
Between(lines) == SubSeq(lines, 2, Len(lines) - 1)

\* a display formula: \[ alone at k * tabstop, the lines of the body at
\* (k + 1) * tabstop, \] alone at k * tabstop
DisplayShape(k, tabstop, out) ==
    /\ Len(out) >= 2
    /\ out[1] = indent_str(k, tabstop) \o Chars("\\[")
    /\ out[Len(out)] = indent_str(k, tabstop) \o Chars("\\]")
    /\ \A n \in 2..(Len(out) - 1) :
          /\ LeadingSpaces(out[n]) = (k + 1) * tabstop
          /\ CountChar(out[n], "[") = 0 /\ CountChar(out[n], "]") = 0

\* an inline formula whose body is flat wide: one line \( body \) when flat
\* and the 6 characters of the delimiters fit line_length, else \( and \) on
\* lines of their own around the lines of the body
InlineShape(flat, bodylines, line_length, out) ==
    IF Len(flat) + 6 <= line_length
    THEN out = << Chars("\\( ") \o flat \o Chars(" \\)") >>
    ELSE /\ Len(out) >= 2
         /\ TrimEnd(out[1]) = Chars("\\(")
         /\ out[Len(out)] = Chars("\\)")
         /\ Between(out) = bodylines

\* C13: every display formula of the formatted tree renders as \[ alone, the
\* body one level deeper and \] alone; every inline formula renders as the
\* one line \( body \) exactly when the body and the delimiters fit the width
FormulaLayout ==
    pc = "done" =>
        \A call \in FormulaCalls(doc, 0) :
            LET out == TexElementFormat(call[1], call[2], context.tabstop,
                                        context.line_length)
                bodylines == MathParentFormat(MathParent(call[1].children), call[2],
                                              context.tabstop, context.line_length)
            IN  \/ Poisoned(out)
                \/ /\ call[1].inline
                   /\ InlineShape(Trim(Join(bodylines, <<>>)), bodylines,
                                  context.line_length, out)
                \/ /\ ~call[1].inline
                   /\ DisplayShape(call[2], context.tabstop, out)

FormulaLayoutWitness ==
    /\ pc = "done"
    /\ context.line_length = MaxWidth /\ context.tabstop = 2
    /\ Len(Children) = 2
    /\ Children[1] = Formula(TRUE, <<MT("abc")>>)
    /\ Children[2] = Env("c", <<>>, <<T("ab"), Formula(TRUE, <<MT("abcd")>>)>>)
    /\ output[1] = Chars("\\( abc \\)")
    /\ \E n \in 1..(Len(output) - 2) :
          /\ TrimEnd(output[n]) = Chars("\\(")
          /\ output[n + 1] = Chars("  abcd")
          /\ output[n + 2] = Chars("\\)")

\* the positions of the character ch in the line
Positions(s, ch) == SelectSeq([n \in 1..Len(s) |-> n], LAMBDA n : s[n] = ch)

\* the trimmed cells of a line
Cells(s) == TrimAll(Split(s, "&"))

\* the lines that are not blank
NonBlank(lines) == SelectSeq(lines, LAMBDA ln : ~Blank(ln))

\* the width of column c: the widest trimmed cell c of the lines
RECURSIVE ColumnWidth(_, _)
ColumnWidth(lines, c) ==
    IF lines = <<>> THEN 0
    ELSE LET here == IF c <= Len(Cells(Head(lines))) THEN Len(Cells(Head(lines))[c]) ELSE 0
             rest == ColumnWidth(Tail(lines), c)
         IN  IF here > rest THEN here ELSE rest

\* where separator c starts in an aligned line: after the indentation, the
\* columns before it and the separators before it
RECURSIVE SeparatorOffset(_, _, _)
SeparatorOffset(lines, lead, c) ==
    IF c = 0 THEN lead - 3
    ELSE SeparatorOffset(lines, lead, c - 1) + 3 + ColumnWidth(lines, c)

\* out is lines aligned at the indentation lead: the blank lines are dropped,
\* the others keep their cells and their number of &, and separator c of every
\* line is " & " at the one offset of column c
Aligned(lines, lead, out) ==
    IF \A n \in 1..Len(lines) : CountChar(lines[n], "&") = 0 THEN out = lines
    ELSE /\ Len(out) = Len(NonBlank(lines))
         /\ \A n \in 1..Len(out) :
               /\ CountChar(out[n], "&") = CountChar(NonBlank(lines)[n], "&")
               /\ Cells(out[n]) = Cells(NonBlank(lines)[n])
               /\ LeadingSpaces(out[n]) = lead
               /\ \A c \in 1..Len(Positions(out[n], "&")) :
                     /\ Positions(out[n], "&")[c] = SeparatorOffset(lines, lead, c) + 2
                     /\ out[n][Positions(out[n], "&")[c] - 1] = " "
                     /\ Positions(out[n], "&")[c] < Len(out[n])
                     /\ out[n][Positions(out[n], "&")[c] + 1] = " "

\* C14: the body of every math environment of the root comes out of the
\* alignment pass unchanged when no line has &, and else with every column
\* padded to its widest trimmed cell, the cells and the number of & of every
\* line kept, and only blank lines dropped
AlignmentPass ==
    pc = "done" =>
        \A n \in 1..Len(Children), k \in 1..2 :
            Children[n].kind = "MathEnvironment" =>
                LET lines == MathParentFormat(MathParent(Children[n].children), k,
                                              context.tabstop, context.line_length)
                    out == AlignAtAmp(Children[n], k, context.tabstop, context.line_length)
                IN  Poisoned(out) \/ Aligned(lines, k * context.tabstop, out)

AlignmentPassWitness ==
    /\ pc = "done"
    /\ context.tabstop = 2
    /\ Len(Children) = 1
    /\ Children[1].kind = "MathEnvironment"
    /\ output = << Chars("\\begin{align}"), Chars("  a   & bc & d"), Chars("  \\\\"),
                   Chars("  efg & h"), Chars("\\end{align}") >>

----------------------------------------------------------------------------
(* Prose: roots whose children are text, comments, verbatim blocks and the
   commands and headers that carry arguments *)

ProseElements ==
    { T("ab"), T("ab cde fg"),
      \* TexParent::from builds the Text of a COMMENT token
      T("% c d"),
      Comment(Chars("% c")),
      KeyValPair(Chars("k"), <<Chars("v")>>),
      Cmd("\\a", <<CurlyGroup(<<T("ab cde")>>)>>),
      Cmd("\\\\", <<BrackGroup(<<T("1em")>>)>>),
      CurlyGroup(<<T("ab cde")>>),
      Env("verbatim", <<>>, <<T("ab cde fg")>>),
      Env("verbatim", <<>>, <<T("  ab")>>),
      Env("c", <<CurlyGroup(<<T("ab cde fg")>>)>>, <<T("ab")>>),
      Env("c", <<>>, <<T("ab"), T("% c d"), T("cde")>>) }

ProseDocs == {Parent(children) : children \in SeqsUpTo(ProseElements, MaxChildren) \ {<<>>}}

InitProse ==
    /\ \E ts \in 0..MaxTabstop, w \in Widths :
          /\ context = FormatterNew(ts, w).context
          /\ doc = FormatterNew(ts, w).doc
    /\ overflow_checks \in BOOLEAN
    /\ pending \in {<<d>> : d \in ProseDocs}
    /\ pc = "idle"
    /\ i = 0
    /\ line = <<>>
    /\ output = <<>>
    /\ l = 0
    /\ result = <<>>
    /\ EngineIdle

SpecProse == InitProse /\ [][Next]_vars

\* a verbatim environment whose body is one Text
IsVerbatim(e) ==
    /\ e.kind = "Environment"
    /\ Len(e.children) = 3
    /\ e.children[1].kind = "BeginEnvironment"
    /\ e.children[1].name = Chars("verbatim")
    /\ e.children[2].kind = "Text"

\* C15: every verbatim environment of the root renders without a panic, and
\* in the lines of the finished call its body is a line of its own, character
\* for character
VerbatimPassThrough ==
    pc = "done" =>
        \A n \in 1..Len(Children) :
            IsVerbatim(Children[n]) =>
                /\ ~Poisoned(TexElementFormat(Children[n], 0, context.tabstop,
                                              context.line_length))
                /\ \E m \in 1..Len(output) : output[m] = Children[n].children[2].text

\* a comment among the children of a Parent: the Text TexParent::from builds
\* of a COMMENT token, or a Comment element
IsComment(e) ==
    \/ e.kind = "Comment"
    \/ e.kind = "Text" /\ StartsWith(Trim(e.text), <<"%">>)

\* C16: in the lines of the finished call every comment of the root ends a
\* line whole: its text is on one line and nothing of a later sibling follows
\* it on that line
CommentTerminatesLine ==
    pc = "done" =>
        \A n \in 1..Len(Children) :
            IsComment(Children[n]) =>
                \E m \in 1..Len(output) : EndsWith(output[m], Trim(Children[n].text))

\* the characters that count: not whitespace, not the % of a guard, not the ~
\* of a tie
Significant(s) == SelectSeq(s, LAMBDA c : c \notin Whitespace \cup {"%", "~"})

\* the text a tree carries, node after node in document order
RECURSIVE Content(_)
RECURSIVE ContentAll(_, _)
ContentAll(children, sep) ==
    IF children = <<>> THEN <<>>
    ELSE IF Len(children) = 1 THEN Content(Head(children))
    ELSE Content(Head(children)) \o sep \o ContentAll(Tail(children), sep)

Content(e) ==
    CASE e.kind \in {"Text", "Comment"} -> e.text
      [] e.kind = "Command" -> e.name \o ContentAll(e.args, <<>>)
      [] e.kind = "KeyValPair" ->
            e.key \o (IF e.value = <<>> THEN <<>> ELSE <<"=">> \o e.value[1])
      [] e.kind \in {"CurlyGroup", "CurlyGroupWordList"} ->
            <<"{">> \o ContentAll(e.children,
                                  IF e.kind = "CurlyGroup" THEN <<>> ELSE <<",">>)
            \o <<"}">>
      [] e.kind = "BrackGroup" -> <<"[">> \o ContentAll(e.children, <<",">>) \o <<"]">>
      [] e.kind = "MixedGroup" ->
            e.open_delim \o ContentAll(e.children, <<>>) \o e.close_delim
      [] e.kind \in {"Parent", "Environment"} -> ContentAll(e.children, <<>>)
      [] e.kind = "EnumItem" -> Chars("\\item") \o ContentAll(e.children, <<>>)
      [] e.kind = "Section" ->
            e.heading \o <<"{">> \o e.name \o <<"}">> \o ContentAll(e.children, <<>>)
      [] e.kind = "BeginEnvironment" ->
            Chars("\\begin") \o ContentAll(e.args, <<>>) \o ContentAll(e.tail, <<>>)
      [] e.kind = "EndEnvironment" ->
            Chars("\\end{") \o e.name \o <<"}">> \o ContentAll(e.tail, <<>>)
      [] OTHER -> <<>>

\* C17: the characters of the lines of the finished call that are not
\* whitespace, % or ~ are those of the texts of the nodes of the tree, in
\* document order
ContentPreservation ==
    pc = "done" => Significant(Join(output, <<>>)) = Significant(Content(doc))

\* the trees of ProseDocs whose content the packer is written to carry: no \\
\* with arguments, no header argument, no key/value pair and no Comment
\* element directly in the root
ContentPreservationPlain ==
    ( /\ pc = "done"
      /\ \A n \in 1..Len(Children) :
            /\ Children[n].kind \notin {"KeyValPair", "Comment"}
            /\ Children[n].kind = "Command" => Children[n].name # Chars("\\\\")
            /\ Children[n].kind = "Environment" =>
                  Len(Children[n].children[1].args) = 1 )
    => Significant(Join(output, <<>>)) = Significant(Content(doc))

\* the tree holds no BlankLine and no Section
RECURSIVE NoParagraphNode(_)
NoParagraphNode(e) ==
    /\ e.kind \notin {"BlankLine", "Section"}
    /\ e.kind \in {"Parent", "Environment", "CurlyGroup", "BrackGroup", "MixedGroup",
                   "CurlyGroupWordList", "EnumItem"}
          => \A n \in 1..Len(e.children) : NoParagraphNode(e.children[n])
    /\ e.kind \in {"Command", "BeginEnvironment"}
          => \A n \in 1..Len(e.args) : NoParagraphNode(e.args[n])

\* C18: the lines of the finished call of a tree with no BlankLine and no
\* Section hold no line that is empty or only whitespace
NoSpuriousBreak ==
    (pc = "done" /\ NoParagraphNode(doc)) => \A m \in 1..Len(output) : ~Blank(output[m])

----------------------------------------------------------------------------
(* Claims about the curly group *)

\* the group's rendering out at level k and width line_length follows the
\* rule: one line { trimmed body } when the lines of the body at level k sum
\* to line_length or less, else { alone, the lines of the body at level k + 1,
\* and } alone
DecisionRule(flat, deeper, line_length, out) ==
    IF SumLen(flat) <= line_length
    THEN out = << <<"{">> \o Trim(Join(flat, <<>>)) \o <<"}">> >>
    ELSE /\ Len(out) = Len(deeper) + 2
         /\ out[1] = <<"{">>
         /\ out[Len(out)] = <<"}">>
         /\ \A n \in 1..Len(deeper) : Trim(out[n + 1]) = Trim(deeper[n])

ExpandedIndentation ==
    pc \in {"loop", "done"} =>
        \A n \in 1..Len(Children), k \in 0..1 :
            Children[n].kind = "CurlyGroup" =>
                LET out == TexElementFormat(Children[n], k, context.tabstop,
                                            context.line_length)
                IN  \/ Poisoned(out)
                    \/ Len(out) = 1
                    \/ \A m \in 2..(Len(out) - 1) :
                          \/ out[m] = <<>>
                          \/ LeadingSpaces(out[m]) = (k + 1) * context.tabstop

----------------------------------------------------------------------------
(* Claims about the lines of a list item after the first *)

\* C21: every list item of the formatted tree, at every indent level k, has
\* (k + 1) * tabstop leading spaces on each line after its first that is not
\* blank
ItemContinuationIndent ==
    pc = "done" =>
        \A call \in ItemCalls(doc, 0) :
            LET out == TexElementFormat(call[1], call[2], context.tabstop,
                                        context.line_length)
            IN  \/ Poisoned(out)
                \/ \A n \in 2..Len(out) :
                      \/ Blank(out[n])
                      \/ LeadingSpaces(out[n]) = (call[2] + 1) * context.tabstop

----------------------------------------------------------------------------
(* Commands: roots whose children are commands with arguments, alone, after
   text and before text *)

CommandElements ==
    { T("ab"), T(".x"), T("+x"), T("abcdefg"),
      Cmd("\\a", <<>>),
      Cmd("\\a", <<CurlyGroup(<<T("b")>>)>>),
      Cmd("\\a", <<CurlyGroup(<<T("b")>>), CurlyGroup(<<T("cd")>>)>>),
      Cmd("\\a", <<CurlyGroup(<<T("ab cde")>>), CurlyGroup(<<T("f")>>)>>),
      Cmd("\\a", <<BrackGroup(<<T("o")>>), CurlyGroup(<<T("ab cde fg")>>)>>),
      Cmd("\\bcdef", <<CurlyGroup(<<T("ab")>>)>>),
      Cmd("\\bcdef", <<CurlyGroup(<<T("ab cde")>>)>>),
      Cmd("\\title", <<CurlyGroup(<<T("ab")>>)>>),
      Cmd("\\a", <<CurlyGroup(<<Cmd("\\b", <<>>), Cmd("\\c", <<>>)>>)>>),
      Cmd("\\a", <<CurlyGroup(<<Cmd("\\b", <<>>), T("x")>>)>>) }

\* a width at which a command with a nested command stays on one line
WideWidth == 12

CommandWidths == {3, MaxWidth, WideWidth}

CommandDocs ==
    {Parent(children) : children \in SeqsUpTo(CommandElements, MaxChildren) \ {<<>>}}

InitCommand ==
    /\ \E ts \in 0..MaxTabstop, w \in CommandWidths :
          /\ context = FormatterNew(ts, w).context
          /\ doc = FormatterNew(ts, w).doc
    /\ overflow_checks \in BOOLEAN
    /\ pending \in {<<d>> : d \in CommandDocs}
    /\ pc = "idle"
    /\ i = 0
    /\ line = <<>>
    /\ output = <<>>
    /\ l = 0
    /\ result = <<>>
    /\ EngineIdle

SpecCommand == InitCommand /\ [][Next]_vars

\* the locals of TexCommand::format before argument j
BeforeArg(cmd, j, indent_level, tabstop, line_length) ==
    TexCommandArgs(cmd, SubSeq(cmd.args, 1, j - 1), [output |-> <<>>, fmt |-> cmd.name],
                   indent_level, tabstop, line_length)

\* the argument text on the open line of the command: what follows the name,
\* or the whole line once a line was emitted
Placed(cmd, st) == IF st.output = <<>> THEN Len(st.fmt) - Len(cmd.name) ELSE Len(st.fmt)

\* C22: every argument of a command of the root is formatted with the width
\* minus the length of the name minus the length of the argument text already
\* on the open line, wherever that difference is not negative
ArgumentBudget ==
    pc = "done" =>
        \A n \in 1..Len(Children) :
            Children[n].kind = "Command" =>
                \A j \in 1..Len(Children[n].args) :
                    LET st == BeforeArg(Children[n], j, 0, context.tabstop,
                                        context.line_length)
                        room == context.line_length - Len(Children[n].name)
                                - Placed(Children[n], st)
                    IN  (~Poisoned(st.output) /\ room >= 0)
                            => TexCommandBudget(Children[n], context.line_length) = room

\* the locals of TexCommand::format after an argument of the lines ln was
\* continued from the locals st: the open line with the first line of the
\* argument is a line of the output, the middle lines follow it, the last line
\* is the open line
Continued(st, ln) ==
    [output |-> st.output \o <<st.fmt \o TrimEnd(ln[1])>> \o SubSeq(ln, 2, Len(ln) - 1),
     fmt |-> TrimEnd(ln[Len(ln)])]

\* C23: an argument of a command of the root that is formatted to more than
\* one line closes the open line of the command with its first line, adds its
\* middle lines in order and leaves its last line as the open line
MultiLineArgument ==
    pc = "done" =>
        \A n \in 1..Len(Children) :
            Children[n].kind = "Command" =>
                \A j \in 1..Len(Children[n].args) :
                    LET st == BeforeArg(Children[n], j, 0, context.tabstop,
                                        context.line_length)
                        ln == TexElementFormat(Children[n].args[j], 0, context.tabstop,
                                  TexCommandBudget(Children[n], context.line_length))
                    IN  (~Poisoned(st.output) /\ ~Poisoned(ln) /\ Len(ln) > 1
                            /\ context.line_length > 0)
                            => BeforeArg(Children[n], j + 1, 0, context.tabstop,
                                         context.line_length) = Continued(st, ln)

\* the width the packer measures for a command before it places it
FlatWidth(cmd) == Len(Join(TexElementFormat(cmd, 0, 0, 0), <<>>))

\* C24: the width measured for a command of the root equals the length of the
\* text the command puts on the line when it is formatted to one line with
\* the width of the context
FlatWidthMeasure ==
    pc = "done" =>
        \A n \in 1..Len(Children) :
            Children[n].kind = "Command" =>
                LET fmt == TexElementFormat(Children[n], 0, context.tabstop,
                                            context.line_length)
                IN  (~Poisoned(fmt) /\ Len(fmt) = 1)
                        => FlatWidth(Children[n]) = Len(Trim(fmt[1]))

\* the first characters of a text after which the claimed rule puts no separator
NoSeparatorBefore == {"}", ")", "]", ".", ",", ";", "~", "+", "|"}

\* a command the packer places on the current line
PlacedOnLine(child) ==
    /\ child.kind = "Command"
    /\ child.name \notin NewlineCommands
    /\ child.name # LineBreakCommand

\* the end of the line ln after a command was placed before the text txt
SeparatorRule(ln, txt) ==
    IF FirstCharIn(txt, NoSeparatorBefore)
    THEN ~EndsWith(ln, <<" ">>) /\ ~EndsWith(ln, <<"~">>)
    ELSE \/ EndsWith(ln, <<"}", " ">>)
         \/ EndsWith(ln, <<"~">>) /\ ~EndsWith(ln, <<"}", "~">>)

\* C25: an iteration of the root's loop that places a command whose next
\* sibling is a text that is not blank leaves the line with no separator when
\* the text starts with one of } ) ] . , ; ~ + | and otherwise with a space
\* after } and a tie after anything else
InterElementSpacing ==
    [][(/\ pc = "loop"
        /\ i < Len(Children)
        /\ PlacedOnLine(Children[i])
        /\ Children[i + 1].kind = "Text"
        /\ ~Blank(Children[i + 1].text)
        /\ pc' = "loop")
            => SeparatorRule(line', Children[i + 1].text)]_vars

----------------------------------------------------------------------------
(* Children that start on a line of their own *)

FreshLineChild(child) ==
    \/ child.kind \in {"Environment", "MathEnvironment", "Section", "EnumItem", "BlankLine"}
    \/ child.kind = "Formula" /\ ~child.inline
    \/ child.kind = "Command" /\ child.name \in NewlineCommands

\* the lines emitted holds the pending line ln, when it is not blank, and then
\* the lines of the child alone
EmittedFresh(emitted, ln, childLines) ==
    LET k == Len(emitted) - Len(childLines)
    IN  /\ k = IF Blank(ln) THEN 0 ELSE 1
        /\ TrimEndAll(SubSeq(emitted, k + 1, Len(emitted))) = TrimEndAll(childLines)
        /\ k = 1 => Trim(emitted[1]) \in {Trim(ln), Append(TrimEnd(ln), "%")}

\* C26: an iteration of the root's loop keeps the lines already emitted, and
\* on an environment, section, list item, blank line, display formula or
\* command that always starts a line it emits the pending line, when that is
\* not blank, then the lines of the child alone, and leaves a blank line for
\* the next sibling
FreshLineChildren ==
    [][(pc = "loop" /\ i <= Len(Children) /\ pc' = "loop")
          => /\ Len(output') >= Len(output)
             /\ SubSeq(output', 1, Len(output)) = output
             /\ FreshLineChild(Children[i])
                   => /\ EmittedFresh(SubSeq(output', Len(output) + 1, Len(output')), line,
                                      TexElementFormat(Children[i], 0, context.tabstop,
                                                       context.line_length))
                      /\ Blank(line')]_vars

FreshLineChildrenWitness ==
    /\ pc = "loop"
    /\ i = 3
    /\ Children = <<T("ab"), EnumItem(<<T("ab cde")>>)>>
    /\ context.tabstop = 2
    /\ context.line_length = MaxWidth
    /\ output = <<Chars("ab"), Chars("\\item ab"), Chars("  "), Chars("  cde ")>>
    /\ line = <<>>

----------------------------------------------------------------------------
(* The end-of-children flush *)

\* the lines flushed for the current line ln with the recorded boundary at
\* column boundary
FlushedWhole(flushed, ln, boundary, line_length) ==
    IF Len(ln) <= line_length
    THEN Len(flushed) = 1 /\ TrimEnd(flushed[1]) = TrimEnd(ln)
    ELSE /\ Len(flushed) = 2
         /\ Len(flushed[1]) = boundary
         /\ flushed[1] \o flushed[2] = ln

\* C27: the flush at the end of the root's children emits a current line that
\* is not blank: as one line with the same text when the line does not exceed
\* the width, and otherwise as the two parts of the line before and after the
\* last recorded boundary
EndOfChildrenFlush ==
    [][(pc = "loop" /\ i > Len(Children) /\ pc' = "done" /\ ~Blank(line))
          => /\ Len(output') > Len(output)
             /\ SubSeq(output', 1, Len(output)) = output
             /\ FlushedWhole(SubSeq(output', Len(output) + 1, Len(output')), line, l,
                             context.line_length)]_vars

----------------------------------------------------------------------------
(* The glued alignment point *)

\* str::contains(t)
HasInfix(s, t) == \E k \in 0..(Len(s) - Len(t)) : SubSeq(s, k + 1, k + Len(t)) = t

\* a math body with a text that ends in & directly before a text that starts
\* with =
GluedPair(body) ==
    \E n \in 1..(Len(body) - 1) :
        /\ body[n].kind = "MathText"
        /\ body[n + 1].kind = "MathText"
        /\ EndsWith(Trim(body[n].text), <<"&">>)
        /\ FirstCharIn(body[n + 1].text, {"="})

\* C28: a math environment of the root whose body has a text ending in &
\* directly before a text starting with = is formatted to lines of which one
\* has & directly before =
GluedAmpEquals ==
    pc = "done" =>
        \A n \in 1..Len(Children) :
            (Children[n].kind = "MathEnvironment" /\ GluedPair(Children[n].children))
                => LET out == TexElementFormat(Children[n], 0, context.tabstop,
                                               context.line_length)
                   IN  \/ Poisoned(out)
                       \/ \E k \in 1..Len(out) : HasInfix(out[k], <<"&", "=">>)

----------------------------------------------------------------------------
(* Paragraph breaks in a text leaf *)

\* the number of double line breaks of s from position n on, left to right
\* without overlap
RECURSIVE Breaks(_, _)
Breaks(s, n) ==
    IF n + 1 > Len(s) THEN 0
    ELSE IF s[n] = "\n" /\ s[n + 1] = "\n" THEN 1 + Breaks(s, n + 2)
    ELSE Breaks(s, n + 1)

\* the children are Text, BlankLine, .., Text with k blank lines
Alternating(children, k) ==
    /\ Len(children) = 2 * k + 1
    /\ \A n \in 1..Len(children) :
          children[n].kind = IF n % 2 = 1 THEN "Text" ELSE "BlankLine"

EmptyLines(lines) == Cardinality({n \in 1..Len(lines) : lines[n] = <<>>})

\* C29: a TEXT, KEY or ERROR node whose text has k >= 1 double line breaks is
\* built as a Parent of k + 1 Text children separated by k BlankLine children,
\* and its formatted lines have exactly k empty lines
ParagraphSplit ==
    (/\ pc \in {"tex", "texdone"}
     /\ Head(pending).kind \in {"TEXT", "KEY", "ERROR"}
     /\ IsNode(Head(pending))
     /\ Breaks(to_string(Head(pending)), 1) >= 1)
        => /\ doc.kind = "Parent"
           /\ Alternating(doc.children, Breaks(to_string(Head(pending)), 1))
           /\ pc = "texdone"
                 => EmptyLines(output) = Breaks(to_string(Head(pending)), 1)

----------------------------------------------------------------------------
(* BuildEngine::build: the calls of the server's threads, one at a time under
   the engine's lock.  A call that returns through ? or the end of the
   function drops the guard. *)

Schemes == {"file", "untitled"}

\* the log lines a build process writes at most
MaxLog == 1

InitBuild ==
    /\ context = FormatterNew(0, MaxWidth).context
    /\ doc = FormatterNew(0, MaxWidth).doc
    /\ overflow_checks = FALSE
    /\ pending = <<>>
    /\ pc = "idle"
    /\ i = 0
    /\ line = <<>>
    /\ output = <<>>
    /\ l = 0
    /\ result = <<>>
    /\ lock = 0
    /\ lsp_sender = <<>>
    /\ build \in [Threads -> {BuildRequest(scheme) : scheme \in Schemes}]

\* let lock = self.lock.lock().unwrap()
Lock(t) ==
    /\ build[t].pc = "start"
    /\ lock = 0
    /\ lock' = t
    /\ build' = [build EXCEPT ![t].pc = "locked"]
    /\ UNCHANGED lsp_sender
    /\ UNCHANGED formatter_vars

\* if document.uri.scheme() != "file" { return Ok(BuildResult { status: FAILURE }) }
CheckUri(t) ==
    /\ build[t].pc = "locked"
    /\ IF build[t].scheme # "file"
       THEN /\ build' = [build EXCEPT ![t].pc = "returned", ![t].returned = "FAILURE"]
            /\ lock' = 0
       ELSE /\ build' = [build EXCEPT ![t].pc = "begin"]
            /\ UNCHANGED lock
    /\ UNCHANGED lsp_sender
    /\ UNCHANGED formatter_vars

\* client::send_notification::<Progress>(.. WorkDoneProgress::Begin ..)
SendBegin(t) ==
    /\ build[t].pc = "begin"
    /\ lsp_sender' = Append(lsp_sender, "Begin")
    /\ build' = [build EXCEPT ![t].pc = "spawn"]
    /\ UNCHANGED lock
    /\ UNCHANGED formatter_vars

\* Command::new(..)...spawn()?: the process runs, or the error is returned
Spawn(t) ==
    /\ build[t].pc = "spawn"
    /\ \E spawned \in BOOLEAN :
          IF spawned
          THEN /\ build' = [build EXCEPT ![t].pc = "wait", ![t].process = "running"]
               /\ UNCHANGED lock
          ELSE /\ build' = [build EXCEPT ![t].pc = "returned", ![t].returned = "Err"]
               /\ lock' = 0
    /\ UNCHANGED lsp_sender
    /\ UNCHANGED formatter_vars

\* the log thread: a line of the process's output sent as a LogMessage
Log(t) ==
    /\ build[t].pc = "wait"
    /\ build[t].logged < MaxLog
    /\ lsp_sender' = Append(lsp_sender, "Log")
    /\ build' = [build EXCEPT ![t].logged = @ + 1]
    /\ UNCHANGED lock
    /\ UNCHANGED formatter_vars

\* process.wait().map(|status| status.success())? and log_handle.join()
Wait(t) ==
    /\ build[t].pc = "wait"
    /\ \E waited \in {"SUCCESS", "ERROR", "Err"} :
          IF waited = "Err"
          THEN /\ build' = [build EXCEPT ![t].pc = "returned", ![t].returned = "Err"]
               /\ lock' = 0
          ELSE /\ build' = [build EXCEPT ![t].pc = "end", ![t].process = "exited",
                                         ![t].returned = waited]
               /\ UNCHANGED lock
    /\ UNCHANGED lsp_sender
    /\ UNCHANGED formatter_vars

\* client::send_notification::<Progress>(.. WorkDoneProgress::End ..), drop(lock)
\* and Ok(BuildResult { status })
SendEnd(t) ==
    /\ build[t].pc = "end"
    /\ lsp_sender' = Append(lsp_sender, "End")
    /\ build' = [build EXCEPT ![t].pc = "returned"]
    /\ lock' = 0
    /\ UNCHANGED formatter_vars

NextBuild ==
    \E t \in Threads :
        \/ Lock(t)
        \/ CheckUri(t)
        \/ SendBegin(t)
        \/ Spawn(t)
        \/ Log(t)
        \/ Wait(t)
        \/ SendEnd(t)

SpecBuild == InitBuild /\ [][NextBuild]_vars

\* the number of notifications of a kind sent so far
Sent(kind, messages) == Len(SelectSeq(messages, LAMBDA m : m = kind))

\* C30: when a call of build returns, every Begin sent has its End, and a call
\* for a document whose URI is not a file URI returns FAILURE straight after
\* taking the lock, with nothing sent and no process spawned
ProgressPairing ==
    [][\A t \in Threads :
          (build[t].pc # "returned" /\ build'[t].pc = "returned")
              => /\ Sent("Begin", lsp_sender') = Sent("End", lsp_sender')
                 /\ build[t].scheme # "file"
                       => /\ build[t].pc = "locked"
                          /\ build'[t].returned = "FAILURE"
                          /\ build'[t].process = "none"
                          /\ lsp_sender' = lsp_sender]_vars

====
